---- MODULE Spec2Model ----
(***************************************************************************)
(* Model of the scripture text engine of bible.py: the book catalog and    *)
(* resolver (Book), the reference parser (parse_query), the clause reflow  *)
(* formatter (verse_to_markdown) and the passage structurer (process).     *)
(*                                                                         *)
(* A Python str is modelled as a sequence of one-character strings.  The   *)
(* characters outside ASCII are written as named tokens: "EM" is U+2003,   *)
(* "EN" is the en-dash U+2013, "LDQ" "RDQ" "LSQ" "RSQ" are the curly       *)
(* quotes U+201C U+201D U+2018 U+2019, and "NL" is the newline.            *)
(***************************************************************************)
EXTENDS Integers, Sequences, FiniteSets, TLC

VARIABLES
    nav_book,       \* Book the navigation stands on (streamlit_app.py)
    nav_origin,     \* ordinal the navigation started from
    nav_dir,        \* "next" or "prev": the button that is pressed
    nav_steps,      \* number of presses so far
    nav_seen,       \* ordinals visited so far
    citation,       \* the parts the query was written from, or NoneVal
    query,          \* parse_query: the citation string
    parse_pc,       \* parse_query: the shape tried next, "returned", "raised"
    parse_shape,    \* parse_query: the shape whose return statement ran
    parse_result,   \* parse_query: returned pair or raised exception
    text,           \* verse_to_markdown: the text argument
    number,         \* verse_to_markdown: the number argument or NoneInt
    rstrict,        \* verse_to_markdown: the strict argument
    reflow_pc,      \* number of applications of verse_to_markdown so far
    reflow_out,     \* results of the applications, in order
    input_lines,    \* process_2: text.split("\n")
    start_verse,    \* process_2: start cursor or NoneVal
    end_verse,      \* process_2: end cursor or NoneVal
    strict,         \* process_2: strict flag
    idx,            \* process_2: index i of the next input line (0-based)
    lines,          \* process_2: the line buffer
    start_chapter,  \* process_2: next chapter to announce or NoneInt
    multi_chapter,  \* process_2: range spans chapters
    proc_pc,        \* process_2: "start", "loop", "done" or "raised"
    proc_out,       \* process_2: returned document or raised exception
    resolve_token,  \* Book.get_book: the string argument
    resolve_pc,     \* Book.get_book: "called", "returned" or "raised"
    resolve_result  \* Book.get_book: returned Book or raised exception

navVars == <<nav_book, nav_origin, nav_dir, nav_steps, nav_seen>>
parseVars == <<citation, query, parse_pc, parse_shape, parse_result>>
reflowVars == <<text, number, rstrict, reflow_pc, reflow_out>>
procVars == <<input_lines, start_verse, end_verse, strict, idx, lines,
              start_chapter, multi_chapter, proc_pc, proc_out>>
resolveVars == <<resolve_token, resolve_pc, resolve_result>>
vars == <<navVars, parseVars, reflowVars, procVars, resolveVars>>

NoneVal == [none |-> TRUE]

\* None of an Optional[int] argument or local
NoneInt == -1

Raise(kind) == [error |-> kind]

IsError(x) == "error" \in DOMAIN x

(***************************************************************************)
(* Characters                                                              *)
(***************************************************************************)
Digits == {"0", "1", "2", "3", "4", "5", "6", "7", "8", "9"}

LowerLetters ==
    {"a", "b", "c", "d", "e", "f", "g", "h", "i", "j", "k", "l", "m",
     "n", "o", "p", "q", "r", "s", "t", "u", "v", "w", "x", "y", "z"}

UpperLetters ==
    {"A", "B", "C", "D", "E", "F", "G", "H", "I", "J", "K", "L", "M",
     "N", "O", "P", "Q", "R", "S", "T", "U", "V", "W", "X", "Y", "Z"}

LowerOf ==
    [c \in UpperLetters |->
        CASE c = "A" -> "a" [] c = "B" -> "b" [] c = "C" -> "c"
          [] c = "D" -> "d" [] c = "E" -> "e" [] c = "F" -> "f"
          [] c = "G" -> "g" [] c = "H" -> "h" [] c = "I" -> "i"
          [] c = "J" -> "j" [] c = "K" -> "k" [] c = "L" -> "l"
          [] c = "M" -> "m" [] c = "N" -> "n" [] c = "O" -> "o"
          [] c = "P" -> "p" [] c = "Q" -> "q" [] c = "R" -> "r"
          [] c = "S" -> "s" [] c = "T" -> "t" [] c = "U" -> "u"
          [] c = "V" -> "v" [] c = "W" -> "w" [] c = "X" -> "x"
          [] c = "Y" -> "y" [] c = "Z" -> "z"]

\* str.lower() on one character
LowerChar(c) == IF c \in UpperLetters THEN LowerOf[c] ELSE c

\* \d of the re module
IsDigit(c) == c \in Digits

\* \w of the re module
IsWord(c) == c \in Digits \cup LowerLetters \cup UpperLetters \cup {"_"}

\* \s of the re module (str patterns are Unicode aware: U+2003 is a space)
IsSpace(c) == c \in {" ", "NL", "EM", "\t"}

DigitVal ==
    [c \in Digits |->
        CASE c = "0" -> 0 [] c = "1" -> 1 [] c = "2" -> 2 [] c = "3" -> 3
          [] c = "4" -> 4 [] c = "5" -> 5 [] c = "6" -> 6 [] c = "7" -> 7
          [] c = "8" -> 8 [] c = "9" -> 9]

DigitChar == <<"1", "2", "3", "4", "5", "6", "7", "8", "9">>

RECURSIVE IntOfDigits(_)
\* int(s) for s matched by \d+
IntOfDigits(s) ==
    IF s = <<>> THEN 0
    ELSE 10 * IntOfDigits(SubSeq(s, 1, Len(s) - 1)) + DigitVal[s[Len(s)]]

RECURSIVE StrOfInt(_)
\* f"{n}" for n >= 0
StrOfInt(n) ==
    IF n < 10 THEN <<(IF n = 0 THEN "0" ELSE DigitChar[n])>>
    ELSE StrOfInt(n \div 10) \o StrOfInt(n % 10)

AllDigits(s) == \A k \in 1..Len(s) : IsDigit(s[k])

\* s[a:b] of Python with 0-based a <= b already clipped to 0..len(s)
Slice(s, a, b) == SubSeq(s, a + 1, b)

\* s[a:]
SliceFrom(s, a) == SubSeq(s, a + 1, Len(s))

StartsWith(s, p) == Len(p) <= Len(s) /\ SubSeq(s, 1, Len(p)) = p

\* p occurs in s at 0-based offset a
OccursAt(s, p, a) == a + Len(p) <= Len(s) /\ SubSeq(s, a + 1, a + Len(p)) = p

\* p in s
Contains(s, p) == \E a \in 0..Len(s) : OccursAt(s, p, a)

\* str.lower() that leaves the string as it is
LowerKeepCase(s) == s

\* s.lower()
Lower(s) == [k \in 1..Len(s) |-> LowerChar(s[k])]

RECURSIVE RemoveChars(_, _)
\* s with every character of the set cs deleted
RemoveChars(s, cs) ==
    IF s = <<>> THEN <<>>
    ELSE IF s[1] \in cs THEN RemoveChars(Tail(s), cs)
         ELSE <<s[1]>> \o RemoveChars(Tail(s), cs)

(***************************************************************************)
(* Book catalog                                                            *)
(***************************************************************************)
BOOKS ==
    <<
       [name |-> <<"G", "e", "n", "e", "s", "i", "s">>, chapter_count |-> 50],
       [name |-> <<"E", "x", "o", "d", "u", "s">>, chapter_count |-> 40],
       [name |-> <<"L", "e", "v", "i", "t", "i", "c", "u", "s">>, chapter_count |-> 27],
       [name |-> <<"N", "u", "m", "b", "e", "r", "s">>, chapter_count |-> 36],
       [name |-> <<"D", "e", "u", "t", "e", "r", "o", "n", "o", "m", "y">>, chapter_count |-> 34],
       [name |-> <<"J", "o", "s", "h", "u", "a">>, chapter_count |-> 24],
       [name |-> <<"J", "u", "d", "g", "e", "s">>, chapter_count |-> 21],
       [name |-> <<"R", "u", "t", "h">>, chapter_count |-> 4],
       [name |-> <<"1", " ", "S", "a", "m", "u", "e", "l">>, chapter_count |-> 31],
       [name |-> <<"2", " ", "S", "a", "m", "u", "e", "l">>, chapter_count |-> 24],
       [name |-> <<"1", " ", "K", "i", "n", "g", "s">>, chapter_count |-> 22],
       [name |-> <<"2", " ", "K", "i", "n", "g", "s">>, chapter_count |-> 25],
       [name |-> <<"1", " ", "C", "h", "r", "o", "n", "i", "c", "l", "e", "s">>, chapter_count |-> 29],
       [name |-> <<"2", " ", "C", "h", "r", "o", "n", "i", "c", "l", "e", "s">>, chapter_count |-> 36],
       [name |-> <<"E", "z", "r", "a">>, chapter_count |-> 10],
       [name |-> <<"N", "e", "h", "e", "m", "i", "a", "h">>, chapter_count |-> 13],
       [name |-> <<"E", "s", "t", "h", "e", "r">>, chapter_count |-> 10],
       [name |-> <<"J", "o", "b">>, chapter_count |-> 42],
       [name |-> <<"P", "s", "a", "l", "m", "s">>, chapter_count |-> 150],
       [name |-> <<"P", "r", "o", "v", "e", "r", "b", "s">>, chapter_count |-> 31],
       [name |-> <<"E", "c", "c", "l", "e", "s", "i", "a", "s", "t", "e", "s">>, chapter_count |-> 12],
       [name |-> <<"S", "o", "n", "g", " ", "o", "f", " ", "S", "o", "l", "o", "m", "o", "n">>, chapter_count |-> 8],
       [name |-> <<"I", "s", "a", "i", "a", "h">>, chapter_count |-> 66],
       [name |-> <<"J", "e", "r", "e", "m", "i", "a", "h">>, chapter_count |-> 52],
       [name |-> <<"L", "a", "m", "e", "n", "t", "a", "t", "i", "o", "n", "s">>, chapter_count |-> 5],
       [name |-> <<"E", "z", "e", "k", "i", "e", "l">>, chapter_count |-> 48],
       [name |-> <<"D", "a", "n", "i", "e", "l">>, chapter_count |-> 12],
       [name |-> <<"H", "o", "s", "e", "a">>, chapter_count |-> 14],
       [name |-> <<"J", "o", "e", "l">>, chapter_count |-> 3],
       [name |-> <<"A", "m", "o", "s">>, chapter_count |-> 9],
       [name |-> <<"O", "b", "a", "d", "i", "a", "h">>, chapter_count |-> 1],
       [name |-> <<"J", "o", "n", "a", "h">>, chapter_count |-> 4],
       [name |-> <<"M", "i", "c", "a", "h">>, chapter_count |-> 7],
       [name |-> <<"N", "a", "h", "u", "m">>, chapter_count |-> 3],
       [name |-> <<"H", "a", "b", "a", "k", "k", "u", "k">>, chapter_count |-> 3],
       [name |-> <<"Z", "e", "p", "h", "a", "n", "i", "a", "h">>, chapter_count |-> 3],
       [name |-> <<"H", "a", "g", "g", "a", "i">>, chapter_count |-> 2],
       [name |-> <<"Z", "e", "c", "h", "a", "r", "i", "a", "h">>, chapter_count |-> 14],
       [name |-> <<"M", "a", "l", "a", "c", "h", "i">>, chapter_count |-> 4],
       [name |-> <<"M", "a", "t", "t", "h", "e", "w">>, chapter_count |-> 28],
       [name |-> <<"M", "a", "r", "k">>, chapter_count |-> 16],
       [name |-> <<"L", "u", "k", "e">>, chapter_count |-> 24],
       [name |-> <<"J", "o", "h", "n">>, chapter_count |-> 21],
       [name |-> <<"A", "c", "t", "s">>, chapter_count |-> 28],
       [name |-> <<"R", "o", "m", "a", "n", "s">>, chapter_count |-> 16],
       [name |-> <<"1", " ", "C", "o", "r", "i", "n", "t", "h", "i", "a", "n", "s">>, chapter_count |-> 16],
       [name |-> <<"2", " ", "C", "o", "r", "i", "n", "t", "h", "i", "a", "n", "s">>, chapter_count |-> 13],
       [name |-> <<"G", "a", "l", "a", "t", "i", "a", "n", "s">>, chapter_count |-> 6],
       [name |-> <<"E", "p", "h", "e", "s", "i", "a", "n", "s">>, chapter_count |-> 6],
       [name |-> <<"P", "h", "i", "l", "i", "p", "p", "i", "a", "n", "s">>, chapter_count |-> 4],
       [name |-> <<"C", "o", "l", "o", "s", "s", "i", "a", "n", "s">>, chapter_count |-> 4],
       [name |-> <<"1", " ", "T", "h", "e", "s", "s", "a", "l", "o", "n", "i", "a", "n", "s">>, chapter_count |-> 5],
       [name |-> <<"2", " ", "T", "h", "e", "s", "s", "a", "l", "o", "n", "i", "a", "n", "s">>, chapter_count |-> 3],
       [name |-> <<"1", " ", "T", "i", "m", "o", "t", "h", "y">>, chapter_count |-> 6],
       [name |-> <<"2", " ", "T", "i", "m", "o", "t", "h", "y">>, chapter_count |-> 4],
       [name |-> <<"T", "i", "t", "u", "s">>, chapter_count |-> 3],
       [name |-> <<"P", "h", "i", "l", "e", "m", "o", "n">>, chapter_count |-> 1],
       [name |-> <<"H", "e", "b", "r", "e", "w", "s">>, chapter_count |-> 13],
       [name |-> <<"J", "a", "m", "e", "s">>, chapter_count |-> 5],
       [name |-> <<"1", " ", "P", "e", "t", "e", "r">>, chapter_count |-> 5],
       [name |-> <<"2", " ", "P", "e", "t", "e", "r">>, chapter_count |-> 3],
       [name |-> <<"1", " ", "J", "o", "h", "n">>, chapter_count |-> 5],
       [name |-> <<"2", " ", "J", "o", "h", "n">>, chapter_count |-> 1],
       [name |-> <<"3", " ", "J", "o", "h", "n">>, chapter_count |-> 1],
       [name |-> <<"J", "u", "d", "e">>, chapter_count |-> 1],
       [name |-> <<"R", "e", "v", "e", "l", "a", "t", "i", "o", "n">>, chapter_count |-> 22]
    >>
SPECIAL_ABBREVATIONS ==
    <<
       <<<<"d", "n">>, <<"D", "a", "n", "i", "e", "l">>>>,
       <<<<"d", "t">>, <<"D", "e", "u", "t", "e", "r", "o", "n", "o", "m", "y">>>>,
       <<<<"g", "n">>, <<"G", "e", "n", "e", "s", "i", "s">>>>,
       <<<<"h", "b">>, <<"H", "a", "b", "a", "k", "k", "u", "k">>>>,
       <<<<"h", "g">>, <<"H", "a", "g", "g", "a", "i">>>>,
       <<<<"j", "d", "g">>, <<"J", "u", "d", "g", "e", "s">>>>,
       <<<<"j", "g">>, <<"J", "u", "d", "g", "e", "s">>>>,
       <<<<"j", "m">>, <<"J", "a", "m", "e", "s">>>>,
       <<<<"j", "n">>, <<"J", "o", "h", "n">>>>,
       <<<<"j", "r">>, <<"J", "e", "r", "e", "m", "i", "a", "h">>>>,
       <<<<"l", "v">>, <<"L", "e", "v", "i", "t", "i", "c", "u", "s">>>>,
       <<<<"m", "c">>, <<"M", "i", "c", "a", "h">>>>,
       <<<<"m", "k">>, <<"M", "a", "r", "k">>>>,
       <<<<"m", "l">>, <<"M", "a", "l", "a", "c", "h", "i">>>>,
       <<<<"m", "r">>, <<"M", "a", "r", "k">>>>,
       <<<<"m", "t">>, <<"M", "a", "t", "t", "h", "e", "w">>>>,
       <<<<"n", "b">>, <<"N", "u", "m", "b", "e", "r", "s">>>>,
       <<<<"p", "h", "m">>, <<"P", "h", "i", "l", "e", "m", "o", "n">>>>,
       <<<<"p", "h", "p">>, <<"P", "h", "i", "l", "i", "p", "p", "i", "a", "n", "s">>>>,
       <<<<"p", "m">>, <<"P", "h", "i", "l", "e", "m", "o", "n">>>>,
       <<<<"p", "p">>, <<"P", "h", "i", "l", "i", "p", "p", "i", "a", "n", "s">>>>,
       <<<<"z", "c">>, <<"Z", "e", "c", "h", "a", "r", "i", "a", "h">>>>,
       <<<<"z", "p">>, <<"Z", "e", "p", "h", "a", "n", "i", "a", "h">>>>
    >>

\* len(BOOKS)
NumBooks == Len(BOOKS)

\* keys of the dict REVERSE_LOOKUP in insertion order:
\* name.lower().replace(" ", "")
REVERSE_KEYS == [n \in 1..NumBooks |-> RemoveChars(Lower(BOOKS[n].name), {" "})]

ReverseKey(n) == REVERSE_KEYS[n]

\* value in REVERSE_LOOKUP
InReverseLookup(value) == \E n \in 1..NumBooks : ReverseKey(n) = value

\* REVERSE_LOOKUP[value]: a later duplicate key would overwrite the value
REVERSE_LOOKUP(value) ==
    CHOOSE n \in 1..NumBooks :
        /\ ReverseKey(n) = value
        /\ \A m \in 1..NumBooks : ReverseKey(m) = value => m <= n

\* keys of REVERSE_LOOKUP_NO_VOWELS: re.sub(r"[a|e|i|o|u|A|E|I|O|O]", "", k)
NO_VOWEL_KEYS ==
    [n \in 1..NumBooks |->
        RemoveChars(ReverseKey(n),
                    {"a", "|", "e", "i", "o", "u", "A", "E", "I", "O"})]

NoVowelKey(n) == NO_VOWEL_KEYS[n]

InReverseLookupNoVowels(value) == \E n \in 1..NumBooks : NoVowelKey(n) = value

\* REVERSE_LOOKUP_NO_VOWELS[value]: the dict comprehension keeps the last
\* ordinal of a key that several names share
REVERSE_LOOKUP_NO_VOWELS(value) ==
    CHOOSE n \in 1..NumBooks :
        /\ NoVowelKey(n) = value
        /\ \A m \in 1..NumBooks : NoVowelKey(m) = value => m <= n

InSpecialAbbreviations(value) ==
    \E k \in 1..Len(SPECIAL_ABBREVATIONS) : SPECIAL_ABBREVATIONS[k][1] = value

SpecialAbbreviation(value) ==
    LET k == CHOOSE j \in 1..Len(SPECIAL_ABBREVATIONS) :
                 SPECIAL_ABBREVATIONS[j][1] = value
    IN  SPECIAL_ABBREVATIONS[k][2]

\* base.index(char) for a char known to occur in base
IndexOf(base, char) ==
    CHOOSE k \in 0..(Len(base) - 1) :
        /\ base[k + 1] = char
        /\ \A j \in 0..(k - 1) : base[j + 1] # char

RECURSIVE FuzzyFrom(_, _, _, _)
\* the loop of fuzzy_match from the state (cur, score)
FuzzyFrom(phrase, base, cur, score) ==
    IF phrase = <<>> THEN score
    ELSE IF phrase[1] = " " THEN FuzzyFrom(Tail(phrase), base, cur, score)
    ELSE LET rest == SliceFrom(base, cur)
         IN  IF \A k \in 1..Len(rest) : rest[k] # phrase[1]
             THEN -1
             ELSE LET cur2 == cur + IndexOf(rest, phrase[1])
                  IN  FuzzyFrom(Tail(phrase), base, cur2, score + cur2)

\* fuzzy_match(phrase, base); None is -1
fuzzy_match(phrase, base) == FuzzyFrom(phrase, base, 0, 0)

\* code point order of the characters of the lookup keys
CodeOrder ==
    <<" ", "0", "1", "2", "3", "4", "5", "6", "7", "8", "9",
      "a", "b", "c", "d", "e", "f", "g", "h", "i", "j", "k", "l", "m",
      "n", "o", "p", "q", "r", "s", "t", "u", "v", "w", "x", "y", "z">>

CodeRank(c) == CHOOSE k \in 1..Len(CodeOrder) : CodeOrder[k] = c

RECURSIVE StrLess(_, _)
\* a < b on str
StrLess(a, b) ==
    IF b = <<>> THEN FALSE
    ELSE IF a = <<>> THEN TRUE
    ELSE IF a[1] = b[1] THEN StrLess(Tail(a), Tail(b))
    ELSE CodeRank(a[1]) < CodeRank(b[1])

\* (s1, k1) < (s2, k2) on tuples of a score and a key
TupleLess(s1, k1, s2, k2) == s1 < s2 \/ (s1 = s2 /\ StrLess(k1, k2))

\* Book.from_number
from_number(n) ==
    IF n \in 1..NumBooks
    THEN [number |-> n, name |-> BOOKS[n].name,
          chapter_count |-> BOOKS[n].chapter_count]
    ELSE Raise("KeyError")

\* str.strip() with no argument
RECURSIVE LStrip(_)
LStrip(s) == IF s # <<>> /\ IsSpace(s[1]) THEN LStrip(Tail(s)) ELSE s

RECURSIVE RStrip(_)
RStrip(s) ==
    IF s # <<>> /\ IsSpace(s[Len(s)]) THEN RStrip(SubSeq(s, 1, Len(s) - 1))
    ELSE s

Strip(s) == RStrip(LStrip(s))

\* the literals int() accepts: digits with single underscores between them
IsIntBody(s) ==
    /\ s # <<>>
    /\ IsDigit(s[1])
    /\ IsDigit(s[Len(s)])
    /\ \A k \in 1..Len(s) : IsDigit(s[k]) \/ s[k] = "_"
    /\ \A k \in 1..(Len(s) - 1) : ~(s[k] = "_" /\ s[k + 1] = "_")

\* int(s) does not raise ValueError
IsIntLiteral(s) ==
    LET u == Strip(s)
    IN  /\ u # <<>>
        /\ IF u[1] \in {"+", "-"} THEN IsIntBody(Tail(u)) ELSE IsIntBody(u)

\* int(s) for a literal
PyInt(s) ==
    LET u == Strip(s)
    IN  IF u[1] = "-" THEN 0 - IntOfDigits(RemoveChars(Tail(u), {"_"}))
        ELSE IF u[1] = "+" THEN IntOfDigits(RemoveChars(Tail(u), {"_"}))
        ELSE IntOfDigits(RemoveChars(u, {"_"}))

\* candidates of the fuzzy rule: ordinals whose key the token matches
FuzzyMatched(value) ==
    {n \in 1..NumBooks : fuzzy_match(value, ReverseKey(n)) # -1}

\* matched[0] of the sorted list of (score, key)
FuzzyBest(value) ==
    CHOOSE n \in FuzzyMatched(value) :
        \A m \in FuzzyMatched(value) \ {n} :
            TupleLess(fuzzy_match(value, ReverseKey(n)), ReverseKey(n),
                      fuzzy_match(value, ReverseKey(m)), ReverseKey(m))

\* first key of REVERSE_LOOKUP, in dict order, with key.startswith(value)
FirstPrefixKey(value) ==
    CHOOSE n \in 1..NumBooks :
        /\ StartsWith(ReverseKey(n), value)
        /\ \A m \in 1..(n - 1) : ~StartsWith(ReverseKey(m), value)

\* first key of REVERSE_LOOKUP, in dict order, with value in key
FirstSubKey(value) ==
    CHOOSE n \in 1..NumBooks :
        /\ Contains(ReverseKey(n), value)
        /\ \A m \in 1..(n - 1) : ~Contains(ReverseKey(m), value)

\* Book.get_book with the substring loop ahead of the prefix loop
get_book_substring_first(string) ==
    LET value == RemoveChars(Lower(string), {" "})
    IN  IF IsIntLiteral(value) THEN from_number(PyInt(value))
        ELSE IF InReverseLookup(value)
             THEN from_number(REVERSE_LOOKUP(value))
        ELSE IF InSpecialAbbreviations(value)
             THEN from_number(REVERSE_LOOKUP(
                      RemoveChars(Lower(SpecialAbbreviation(value)), {" "})))
        ELSE IF InReverseLookupNoVowels(value)
             THEN from_number(REVERSE_LOOKUP_NO_VOWELS(value))
        ELSE IF \E n \in 1..NumBooks : Contains(ReverseKey(n), value)
             THEN from_number(REVERSE_LOOKUP(ReverseKey(FirstSubKey(value))))
        ELSE IF FuzzyMatched(value) # {}
             THEN from_number(REVERSE_LOOKUP(ReverseKey(FuzzyBest(value))))
        ELSE Raise("BookNotFound")

\* Book.get_book
get_book(string) ==
    LET value == RemoveChars(Lower(string), {" "})
    IN  IF IsIntLiteral(value) THEN from_number(PyInt(value))
        ELSE IF InReverseLookup(value)
             THEN from_number(REVERSE_LOOKUP(value))
        ELSE IF InSpecialAbbreviations(value)
             THEN from_number(REVERSE_LOOKUP(
                      RemoveChars(Lower(SpecialAbbreviation(value)), {" "})))
        ELSE IF InReverseLookupNoVowels(value)
             THEN from_number(REVERSE_LOOKUP_NO_VOWELS(value))
        ELSE IF \E n \in 1..NumBooks : StartsWith(ReverseKey(n), value)
             THEN from_number(REVERSE_LOOKUP(ReverseKey(FirstPrefixKey(value))))
        ELSE IF \E n \in 1..NumBooks : Contains(ReverseKey(n), value)
             THEN from_number(REVERSE_LOOKUP(ReverseKey(FirstSubKey(value))))
        ELSE IF FuzzyMatched(value) # {}
             THEN from_number(REVERSE_LOOKUP(ReverseKey(FuzzyBest(value))))
        ELSE Raise("BookNotFound")

\* Book.next
BookNext(self) ==
    LET number1 == self.number + 1
        number2 == IF number1 > NumBooks THEN number1 % NumBooks ELSE number1
    IN  from_number(number2)

\* Book.prev with the wrap one short of the last book
BookPrevShort(self) ==
    LET number1 == self.number - 1
        number2 == IF number1 = 0 THEN NumBooks - 1 ELSE number1
    IN  from_number(number2)

\* Book.prev
BookPrev(self) ==
    LET number1 == self.number - 1
        number2 == IF number1 = 0 THEN NumBooks ELSE number1
    IN  from_number(number2)

(***************************************************************************)
(* Reference parser                                                        *)
(***************************************************************************)
\* the result None of a parse_* function, and of re.match
NoMatch == [nomatch |-> TRUE]

\* the separator class (:|v) of the patterns
IsVerseSep(c) == c \in {":", "v"}

\* a separator class of the hyphen alone
IsRangeSepHyphenOnly(c) == c \in {"-"}

\* the separator class (-|EN) of the patterns
IsRangeSep(c) == c \in {"-", "EN"}

RECURSIVE DigitEnd(_, _)
\* 0-based offset just after the greedy \d* that starts at offset a of q
DigitEnd(q, a) ==
    IF a < Len(q) /\ IsDigit(q[a + 1]) THEN DigitEnd(q, a + 1) ELSE a

\* $ of the re module: the end, or just before a final newline
AtEnd(q, a) == a = Len(q) \/ (a = Len(q) - 1 /\ q[Len(q)] = "NL")

\* (?P<book>^.+?) can be q[0:k]: at least one character and no newline
BookSpan(q, k) == k >= 1 /\ k <= Len(q) /\ \A j \in 1..k : q[j] # "NL"

\* offset after an optional group ((:|v)\d+|) that starts at offset a
OptVerseEnd(q, a) ==
    IF a < Len(q) /\ IsVerseSep(q[a + 1]) /\ DigitEnd(q, a + 1) > a + 1
    THEN DigitEnd(q, a + 1)
    ELSE a

\* the pattern of parse_chapters_with_verses matches q with book q[0:k]
ChaptersAt(q, k) ==
    LET c1e == DigitEnd(q, k)
        v1e == OptVerseEnd(q, c1e)
        c2e == DigitEnd(q, v1e + 1)
        v2e == OptVerseEnd(q, c2e)
    IN  /\ BookSpan(q, k)
        /\ c1e > k
        /\ v1e < Len(q) /\ IsRangeSep(q[v1e + 1])
        /\ c2e > v1e + 1
        /\ AtEnd(q, v2e)

\* the pattern of parse_single_chapter_with_verses matches with book q[0:k]
VersesAt(q, k) ==
    LET ce == DigitEnd(q, k)
        v1e == DigitEnd(q, ce + 1)
        v2e == DigitEnd(q, v1e + 1)
    IN  /\ BookSpan(q, k)
        /\ ce > k
        /\ ce < Len(q) /\ IsVerseSep(q[ce + 1])
        /\ v1e > ce + 1
        /\ v1e < Len(q) /\ IsRangeSep(q[v1e + 1])
        /\ v2e > v1e + 1
        /\ AtEnd(q, v2e)

\* the pattern of parse_single_chapter_with_start_verse matches with q[0:k]
StartVerseAt(q, k) ==
    LET ce == DigitEnd(q, k)
        ve == DigitEnd(q, ce + 1)
    IN  /\ BookSpan(q, k)
        /\ ce > k
        /\ ce < Len(q) /\ IsVerseSep(q[ce + 1])
        /\ ve > ce + 1
        /\ AtEnd(q, ve)

\* the pattern of parse_single_chapter_no_verse matches with book q[0:k]
NoVerseAt(q, k) == BookSpan(q, k) /\ DigitEnd(q, k) > k

\* the lazy .+? takes the shortest book for which the rest matches
ShortestBook(q, ks) == CHOOSE k \in ks : \A j \in ks : k <= j

\* the number of an optional [:V] part with an omitted part read as 1
OptVerseIntFromOne(q, a, e) ==
    IF e > a THEN IntOfDigits(Slice(q, a + 1, e)) ELSE 1

\* int(group or "0") for the optional group that ends at e after offset a
OptVerseInt(q, a, e) == IF e > a THEN IntOfDigits(Slice(q, a + 1, e)) ELSE 0

\* parse_chapters_with_verses without the test of line 594
parse_chapters_with_verses_no_reject(q) ==
    LET ks == {k \in 1..Len(q) : ChaptersAt(q, k)}
    IN  IF ks = {} THEN NoMatch
        ELSE LET k == ShortestBook(q, ks)
                 c1e == DigitEnd(q, k)
                 v1e == OptVerseEnd(q, c1e)
                 c2e == DigitEnd(q, v1e + 1)
                 v2e == OptVerseEnd(q, c2e)
             IN  [book |-> Slice(q, 0, k),
                  start_chapter |-> IntOfDigits(Slice(q, k, c1e)),
                  start_verse |-> OptVerseInt(q, c1e, v1e),
                  end_chapter |-> IntOfDigits(Slice(q, v1e + 1, c2e)),
                  end_verse |-> OptVerseInt(q, c2e, v2e)]

\* parse_chapters_with_verses
parse_chapters_with_verses(q) ==
    LET ks == {k \in 1..Len(q) : ChaptersAt(q, k)}
    IN  IF ks = {} THEN NoMatch
        ELSE LET k == ShortestBook(q, ks)
                 c1e == DigitEnd(q, k)
                 v1e == OptVerseEnd(q, c1e)
                 c2e == DigitEnd(q, v1e + 1)
                 v2e == OptVerseEnd(q, c2e)
                 sv == OptVerseInt(q, c1e, v1e)
                 ev == OptVerseInt(q, c2e, v2e)
             IN  IF sv # 0 /\ ev = 0 THEN NoMatch
                 ELSE [book |-> Slice(q, 0, k),
                       start_chapter |-> IntOfDigits(Slice(q, k, c1e)),
                       start_verse |-> sv,
                       end_chapter |-> IntOfDigits(Slice(q, v1e + 1, c2e)),
                       end_verse |-> ev]

\* parse_single_chapter_with_verses
parse_single_chapter_with_verses(q) ==
    LET ks == {k \in 1..Len(q) : VersesAt(q, k)}
    IN  IF ks = {} THEN NoMatch
        ELSE LET k == ShortestBook(q, ks)
                 ce == DigitEnd(q, k)
                 v1e == DigitEnd(q, ce + 1)
                 v2e == DigitEnd(q, v1e + 1)
             IN  [book |-> Slice(q, 0, k),
                  chapter |-> IntOfDigits(Slice(q, k, ce)),
                  start_verse |-> IntOfDigits(Slice(q, ce + 1, v1e)),
                  end_verse |-> IntOfDigits(Slice(q, v1e + 1, v2e))]

\* parse_single_chapter_with_start_verse
parse_single_chapter_with_start_verse(q) ==
    LET ks == {k \in 1..Len(q) : StartVerseAt(q, k)}
    IN  IF ks = {} THEN NoMatch
        ELSE LET k == ShortestBook(q, ks)
                 ce == DigitEnd(q, k)
                 ve == DigitEnd(q, ce + 1)
             IN  [book |-> Slice(q, 0, k),
                  chapter |-> IntOfDigits(Slice(q, k, ce)),
                  verse |-> IntOfDigits(Slice(q, ce + 1, ve))]

\* the match and return of parse_single_chapter_no_verse, lines 547-550
NoVerseMatch(q) ==
    LET ks == {k \in 1..Len(q) : NoVerseAt(q, k)}
    IN  IF ks = {} THEN [book |-> <<"1">>, chapter |-> 1]
        ELSE LET k == ShortestBook(q, ks)
             IN  [book |-> Slice(q, 0, k),
                  chapter |-> IntOfDigits(Slice(q, k, DigitEnd(q, k)))]

\* parse_single_chapter_no_verse without the default chapter of line 546
parse_single_chapter_no_verse_no_default(q) == NoVerseMatch(q)

\* parse_single_chapter_no_verse: int(query[-1]) raises IndexError on the
\* empty query and ValueError on a last character that is not a digit
parse_single_chapter_no_verse(q) ==
    IF q # <<>> /\ IsIntLiteral(<<q[Len(q)]>>) THEN NoVerseMatch(q)
    ELSE NoVerseMatch(q \o <<"1">>)

\* Verse(book=..., chapter_number=..., number=...)
Verse(book, chapter_number, verse_number) ==
    [book |-> book, chapter_number |-> chapter_number, number |-> verse_number]

\* a returned pair; Book.get_book is called for the start and then the end
\* cursor, and the first exception propagates
Cursors(token, c1, v1, c2, v2) ==
    IF IsError(get_book(token)) THEN get_book(token)
    ELSE [start |-> Verse(get_book(token), c1, v1),
          end |-> Verse(get_book(token), c2, v2)]

\* a returned pair with end None
StartOnly(token, c, v) ==
    IF IsError(get_book(token)) THEN get_book(token)
    ELSE [start |-> Verse(get_book(token), c, v), end |-> NoneVal]

\* lines 606-617 of parse_query
ReturnChapters(p) ==
    Cursors(p.book, p.start_chapter, p.start_verse, p.end_chapter, p.end_verse)

\* lines 619-630 of parse_query
ReturnVerses(p) ==
    Cursors(p.book, p.chapter, p.start_verse, p.chapter, p.end_verse)

\* lines 632-642 of parse_query
ReturnStartVerse(p) == StartOnly(p.book, p.chapter, p.verse)

\* lines 644-652 of parse_query
ReturnNoVerse(p) == StartOnly(p.book, p.chapter, 0)

\* parse_query as a function of the query
parse_query(q) ==
    IF parse_chapters_with_verses(q) # NoMatch
    THEN ReturnChapters(parse_chapters_with_verses(q))
    ELSE IF parse_single_chapter_with_verses(q) # NoMatch
    THEN ReturnVerses(parse_single_chapter_with_verses(q))
    ELSE IF parse_single_chapter_with_start_verse(q) # NoMatch
    THEN ReturnStartVerse(parse_single_chapter_with_start_verse(q))
    ELSE ReturnNoVerse(parse_single_chapter_no_verse(q))

(***************************************************************************)
(* Clause reflow formatter: verse_to_markdown                              *)
(***************************************************************************)
\* EMPTY_SPACE, the character U+2003
EMPTY_SPACE == "EM"

\* indent_break of verse_to_markdown
IndentBreak(is_strict) ==
    IF ~is_strict THEN <<"NL", " ", " ", " ", " ">>
    ELSE <<"<", "b", "r", ">", EMPTY_SPACE>>

\* the character at 0-based offset a of s, or "" past the end
CharAt(s, a) == IF a >= 0 /\ a < Len(s) THEN s[a + 1] ELSE ""

RECURSIVE WordEnd(_, _)
\* offset just after the greedy \w* that starts at offset a
WordEnd(s, a) == IF IsWord(CharAt(s, a)) THEN WordEnd(s, a + 1) ELSE a

RECURSIVE SpaceEnd(_, _)
\* offset just after the greedy " *" that starts at offset a
SpaceEnd(s, a) == IF CharAt(s, a) = " " THEN SpaceEnd(s, a + 1) ELSE a

\* offset just after the group (\(\d+\)|) that starts at offset a
RefEnd(s, a) ==
    IF /\ CharAt(s, a) = "("
       /\ DigitEnd(s, a + 1) > a + 1
       /\ CharAt(s, DigitEnd(s, a + 1)) = ")"
    THEN DigitEnd(s, a + 1) + 1
    ELSE a

RECURSIVE WordsEnd(_, _)
\* offset just after the greedy ( \w+)* that starts at offset a
WordsEnd(s, a) ==
    IF CharAt(s, a) = " " /\ IsWord(CharAt(s, a + 1))
    THEN WordsEnd(s, WordEnd(s, a + 1))
    ELSE a

\* the words of the loop of lines 221-247, in order
LINK_WORDS ==
    <<
       <<"s", "o">>,
       <<"b", "u", "t">>,
       <<"b", "e", "c", "a", "u", "s", "e">>,
       <<"n", "o", "t", " ", "b", "e", "c", "a", "u", "s", "e">>,
       <<"t", "h", "e", "r", "e", "f", "o", "r", "e">>,
       <<"f", "o", "r">>,
       <<"i", "n", " ", "o", "r", "d", "e", "r", " ", "t", "h", "a", "t">>,
       <<"u", "n", "l", "e", "s", "s">>,
       <<"n", "o", "t", " ", "o", "n", "l", "y">>,
       <<"w", "h", "i", "c", "h">>,
       <<"w", "h", "e", "r", "e">>,
       <<"w", "h", "e", "n">>,
       <<"w", "h", "o">>,
       <<"w", "h", "o", "s", "e">>,
       <<"w", "h", "o", "m">>,
       <<"o", "f", " ", "w", "h", "o", "m">>,
       <<"o", "f", " ", "w", "h", "i", "c", "h">>,
       <<"e", "v", "e", "n", " ", "t", "h", "o", "u", "g", "h">>,
       <<"s", "i", "n", "c", "e">>
    >>

\* the closing marks of the loop of lines 211-218, in order
CLOSING_MARKS == <<"!", ";", "\"", "?", ":">>

\* the conjunctions of the loop of lines 248-249, in order
CONJUNCTIONS ==
    <<
       <<"W", "h", "e", "n">>,
       <<"B", "u", "t", " ", "w", "h", "e", "n">>,
       <<"S", "o", " ", "w", "h", "e", "n">>
    >>

\* the lookahead \w+ as of line 251 succeeds at offset a
AsIdiomAhead(s, a) ==
    WordEnd(s, a) > a /\ OccursAt(s, <<" ", "a", "s">>, WordEnd(s, a))

\* a lookahead for one word only: \w+(\.|;)
ClosingAndAheadOneWord(s, a) ==
    WordEnd(s, a) > a /\ CharAt(s, WordEnd(s, a)) \in {".", ";"}

\* the lookahead (\w+ |)(\w+)(\.|;) of line 256 succeeds at offset a
ClosingAndAhead(s, a) ==
    LET w1 == WordEnd(s, a)
        w2 == WordEnd(s, w1 + 1)
    IN  /\ w1 > a
        /\ \/ CharAt(s, w1) \in {".", ";"}
           \/ /\ CharAt(s, w1) = " "
              /\ w2 > w1 + 1
              /\ CharAt(s, w2) \in {".", ";"}

\* offset just after the match of the pattern of a rule at offset p of s,
\* or -1 if the pattern does not match there
MatchEnd(rule, s, p) ==
    CASE rule.kind = "open_double_quote" ->
            IF /\ CharAt(s, p) = " " /\ CharAt(s, p + 1) = "\""
               /\ p >= 1 /\ ~IsSpace(CharAt(s, p - 1))
            THEN p + 2 ELSE -1
      [] rule.kind = "open_single_quote" ->
            IF CharAt(s, p) = " " /\ CharAt(s, p + 1) = "'"
            THEN p + 2 ELSE -1
      [] rule.kind = "full_stop" ->
            LET q1 == IF CharAt(s, p + 1) \in {"'", "\""} THEN p + 2
                      ELSE p + 1
                r1 == RefEnd(s, q1)
            IN  IF CharAt(s, p) = "." /\ SpaceEnd(s, r1) > r1
                THEN SpaceEnd(s, r1) ELSE -1
      [] rule.kind = "closing_mark" ->
            IF CharAt(s, p) = rule.mark /\ CharAt(s, p + 1) = " "
            THEN p + 2 ELSE -1
      [] rule.kind = "closing_single_quote" ->
            IF /\ CharAt(s, p) = "'" /\ CharAt(s, p + 1) = " "
               /\ CharAt(s, p - 1) # "s"
            THEN p + 2 ELSE -1
      [] rule.kind = "link_word" ->
            LET r1 == RefEnd(s, p + 1)
                w == <<" ">> \o rule.word \o <<" ">>
            IN  IF CharAt(s, p) \in {",", ";"} /\ OccursAt(s, w, r1)
                THEN r1 + Len(w) ELSE -1
      [] rule.kind = "conjunction" ->
            LET a == p + Len(rule.word)
                e == WordsEnd(s, a)
            IN  IF /\ OccursAt(s, rule.word, p)
                   /\ e > a
                   /\ CharAt(s, e) = "," /\ CharAt(s, e + 1) = " "
                THEN e + 2 ELSE -1
      [] rule.kind = "as" ->
            LET r1 == RefEnd(s, p + 1)
                w == <<" ", "a", "s", " ">>
            IN  IF /\ CharAt(s, p) \in {",", ";"} /\ OccursAt(s, w, r1)
                   /\ ~AsIdiomAhead(s, r1 + Len(w))
                THEN r1 + Len(w) ELSE -1
      [] rule.kind = "and" ->
            LET r1 == RefEnd(s, p + 1)
                w == <<" ", "a", "n", "d", " ">>
            IN  IF /\ CharAt(s, p) \in {",", ";"} /\ OccursAt(s, w, r1)
                   /\ ~ClosingAndAhead(s, r1 + Len(w))
                THEN r1 + Len(w) ELSE -1

\* a replacement that drops the closing mark it matched
ReplacementDropsMark(rule, s, p, e, br) ==
    CASE rule.kind = "open_double_quote" -> br \o <<"\"">>
      [] rule.kind = "open_single_quote" -> br \o <<"'">>
      [] rule.kind = "full_stop" ->
            LET q1 == IF CharAt(s, p + 1) \in {"'", "\""} THEN p + 2
                      ELSE p + 1
            IN  Slice(s, p, RefEnd(s, q1)) \o br
      [] rule.kind = "closing_mark" -> br
      [] rule.kind = "closing_single_quote" -> <<"'">> \o br
      [] rule.kind = "link_word" ->
            Slice(s, p, RefEnd(s, p + 1)) \o br \o rule.word \o <<" ">>
      [] rule.kind = "conjunction" -> Slice(s, p, e - 1) \o br
      [] rule.kind = "as" ->
            Slice(s, p, RefEnd(s, p + 1)) \o br \o <<"a", "s", " ">>
      [] rule.kind = "and" ->
            Slice(s, p, RefEnd(s, p + 1)) \o br \o <<"a", "n", "d", " ">>

\* the replacement of the match of a rule that spans offsets p to e of s
Replacement(rule, s, p, e, br) ==
    CASE rule.kind = "open_double_quote" -> br \o <<"\"">>
      [] rule.kind = "open_single_quote" -> br \o <<"'">>
      [] rule.kind = "full_stop" ->
            LET q1 == IF CharAt(s, p + 1) \in {"'", "\""} THEN p + 2
                      ELSE p + 1
            IN  Slice(s, p, RefEnd(s, q1)) \o br
      [] rule.kind = "closing_mark" -> <<rule.mark>> \o br
      [] rule.kind = "closing_single_quote" -> <<"'">> \o br
      [] rule.kind = "link_word" ->
            Slice(s, p, RefEnd(s, p + 1)) \o br \o rule.word \o <<" ">>
      [] rule.kind = "conjunction" -> Slice(s, p, e - 1) \o br
      [] rule.kind = "as" ->
            Slice(s, p, RefEnd(s, p + 1)) \o br \o <<"a", "s", " ">>
      [] rule.kind = "and" ->
            Slice(s, p, RefEnd(s, p + 1)) \o br \o <<"a", "n", "d", " ">>

\* the least offset of a set of offsets, or -1 if there is none
FirstOffset(offsets) ==
    IF offsets = {} THEN -1
    ELSE CHOOSE q \in offsets : \A r \in offsets : q <= r

\* offset of the leftmost match of a rule at or after offset p, or -1
NextMatch(rule, s, p) ==
    FirstOffset({q \in p..(Len(s) - 1) : MatchEnd(rule, s, q) >= 0})

RECURSIVE SubFrom(_, _, _, _)
RECURSIVE SubAt(_, _, _, _, _)
\* re.sub of a rule from offset p on: leftmost matches, not overlapping
SubFrom(rule, s, p, br) == SubAt(rule, s, p, br, NextMatch(rule, s, p))

\* re.sub from offset p on, where the next match starts at q if there is one
SubAt(rule, s, p, br, q) ==
    IF q < 0 THEN SliceFrom(s, p)
    ELSE Slice(s, p, q)
         \o Replacement(rule, s, q, MatchEnd(rule, s, q), br)
         \o SubFrom(rule, s, MatchEnd(rule, s, q), br)

\* the re.sub calls of lines 205-259 in their order, each by its rule
RULES ==
    <<[kind |-> "open_double_quote"],
      [kind |-> "open_single_quote"],
      [kind |-> "full_stop"]>>
    \o [k \in 1..Len(CLOSING_MARKS) |->
           [kind |-> "closing_mark", mark |-> CLOSING_MARKS[k]]]
    \o <<[kind |-> "closing_single_quote"]>>
    \o [k \in 1..Len(LINK_WORDS) |->
           [kind |-> "link_word", word |-> LINK_WORDS[k]]]
    \o [k \in 1..Len(CONJUNCTIONS) |->
           [kind |-> "conjunction", word |-> CONJUNCTIONS[k]]]
    \o <<[kind |-> "as"], [kind |-> "and"]>>

RECURSIVE SubRules(_, _, _)
\* text = re.sub(...) for the k-th rule and the rules after it; no rule
\* matches in the empty text
SubRules(s, k, br) ==
    IF s = <<>> \/ k > Len(RULES) THEN s
    ELSE SubRules(SubFrom(RULES[k], s, 0, br), k + 1, br)

\* lines 205-259 of verse_to_markdown: the rules in their order
ReflowText(s, br) == SubRules(s, 1, br)

\* the number prefix put before every number that is given, 0 too
NumberPrefixOfZero(n) ==
    IF n # NoneInt THEN StrOfInt(n) \o <<".", " ">> ELSE <<>>

\* the prefix of lines 260-263; a number None is NoneInt
NumberPrefix(n) ==
    IF n # NoneInt /\ n # 0 THEN StrOfInt(n) \o <<".", " ">> ELSE <<>>

\* verse_to_markdown(text, number, strict)
verse_to_markdown(s, n, is_strict) ==
    NumberPrefix(n) \o ReflowText(s, IndentBreak(is_strict))

(***************************************************************************)
(* Passage structurer: process_1 and process_2                             *)
(***************************************************************************)
LINE_BREAK == <<"NL">>

PARAGRAPH_BREAK == <<"-", "-", "-", "NL">>

HEADER == <<"#">>

SECTION_HEADER == <<"#", "#">>

\* the literal line that opens the footnotes
FOOTNOTES == <<"F", "o", "o", "t", "n", "o", "t", "e", "s">>

\* process_1 on one character: curly quotes become straight quotes
StraightQuote(c) ==
    IF c \in {"LDQ", "RDQ"} THEN "\""
    ELSE IF c \in {"LSQ", "RSQ"} THEN "'"
    ELSE c

\* process_1 on one line of the text
process_1(s) == [k \in 1..Len(s) |-> StraightQuote(s[k])]

\* offset just after a match of verse_mark \[(\d+)\] * at offset p, or -1
VerseMarkEnd(s, p) ==
    IF /\ CharAt(s, p) = "["
       /\ DigitEnd(s, p + 1) > p + 1
       /\ CharAt(s, DigitEnd(s, p + 1)) = "]"
    THEN SpaceEnd(s, DigitEnd(s, p + 1) + 1)
    ELSE -1

RECURSIVE VerseMarks(_, _)
\* verse_mark.finditer(s) from offset p on: the start offset and the number
\* of every match
VerseMarks(s, p) ==
    IF p >= Len(s) THEN <<>>
    ELSE IF VerseMarkEnd(s, p) < 0 THEN VerseMarks(s, p + 1)
    ELSE <<[at |-> p, num |-> IntOfDigits(Slice(s, p + 1, DigitEnd(s, p + 1)))]>>
         \o VerseMarks(s, VerseMarkEnd(s, p))

RECURSIVE VerseMarkSub(_, _)
\* verse_mark.sub("", s) from offset p on
VerseMarkSub(s, p) ==
    IF p >= Len(s) THEN <<>>
    ELSE IF VerseMarkEnd(s, p) < 0 THEN <<s[p + 1]>> \o VerseMarkSub(s, p + 1)
    ELSE VerseMarkSub(s, VerseMarkEnd(s, p))

\* footnote_mark.match(s): ^\((\d+)\)
FootnoteMarkMatch(s) ==
    /\ CharAt(s, 0) = "("
    /\ DigitEnd(s, 1) > 1
    /\ CharAt(s, DigitEnd(s, 1)) = ")"

\* footnote_mark.sub that also deletes the verse marks of the line
FootnoteMarkSubNoVerseMarks(s) == <<"-", " ">> \o VerseMarkSub(s, 0)

\* footnote_mark.sub(r"- (\1)", s) for a line the mark matches
FootnoteMarkSub(s) == <<"-", " ">> \o s

\* paragraph_start.match(s): two spaces and a character that is no space
ParagraphStartMatch(s) ==
    /\ Len(s) >= 3
    /\ s[1] = " " /\ s[2] = " "
    /\ ~IsSpace(s[3])

RECURSIVE RStripBreaks(_)
\* s.rstrip(LINE_BREAK)
RStripBreaks(s) ==
    IF s # <<>> /\ s[Len(s)] = "NL" THEN RStripBreaks(SubSeq(s, 1, Len(s) - 1))
    ELSE s

\* lines[-1] and lines[-2] of a buffer
Last(buf) == buf[Len(buf)]

Last2(buf) == buf[Len(buf) - 1]

\* start_chapter as set by lines 362-370
InitialStartChapter(sv) ==
    IF sv # NoneVal
    THEN IF sv.number <= 1 THEN sv.chapter_number
         ELSE IF sv.chapter_number + 1 <= sv.book.chapter_count
              THEN sv.chapter_number + 1
              ELSE sv.book.chapter_count
    ELSE NoneInt

\* multi_chapter as set by lines 371-374
InitialMultiChapter(sv, ev) ==
    IF sv # NoneVal /\ ev # NoneVal
    THEN sv.chapter_number < ev.chapter_number
    ELSE FALSE

\* the chapter marker *c* of lines 423 and 426
ChapterMark(c) == <<"*">> \o StrOfInt(c) \o <<"*">>

\* the test without the comparison with the chapter of end_verse
AnnounceChapterPastEnd(st, multi, ev) ==
    /\ multi
    /\ st.start_chapter # NoneInt
    /\ ev # NoneVal

\* the test of lines 414-419 and 451-456
AnnounceChapter(st, multi, ev) ==
    /\ multi
    /\ st.start_chapter # NoneInt
    /\ ev # NoneVal
    /\ st.start_chapter <= ev.chapter_number

\* the injection into a section header with the index one off: the marker
\* goes in front of the element before the header
InjectIntoHeaderOneOff(st) ==
    IF Last(st.lines) = <<>> /\ StartsWith(Last2(st.lines), SECTION_HEADER)
    THEN [st EXCEPT
            !.lines[Len(st.lines) - 2] =
                ChapterMark(st.start_chapter) \o <<"NL">> \o @,
            !.start_chapter = @ + 1]
    ELSE st

\* lines 422-424 and 457-459: the marker goes in front of a section header
\* that is followed by a blank element
InjectIntoHeader(st) ==
    IF Last(st.lines) = <<>> /\ StartsWith(Last2(st.lines), SECTION_HEADER)
    THEN [st EXCEPT
            !.lines[Len(st.lines) - 1] =
                ChapterMark(st.start_chapter) \o <<"NL">> \o @,
            !.start_chapter = @ + 1]
    ELSE st

\* lines 425-427 and 460-462: the marker goes behind a paragraph break
InjectIntoBreak(st) ==
    IF Last(st.lines) = PARAGRAPH_BREAK
    THEN [st EXCEPT
            !.lines[Len(st.lines)] =
                @ \o <<"NL">> \o ChapterMark(st.start_chapter),
            !.start_chapter = @ + 1]
    ELSE st

\* lines 428-429 and 463-464: something stands before verse 1
BreakBeforeVerseOne(st) ==
    IF st.result # <<>>
    THEN [st EXCEPT !.result = Append(@, PARAGRAPH_BREAK)]
    ELSE st

\* lines 413-429 and 450-464: what is done before verse 1 is emitted
BeforeVerse(st, multi, ev) ==
    IF st.verse_num = 1 /\ AnnounceChapter(st, multi, ev)
    THEN BreakBeforeVerseOne(InjectIntoBreak(InjectIntoHeader(st)))
    ELSE st

\* a numbered verse entry that keeps the verse marks of its text
EmitVerseKeepsMark(st, body, is_strict) ==
    [st EXCEPT
        !.result = @ \o <<<<>>,
                          verse_to_markdown(body, st.verse_num, is_strict)
                          \o LINE_BREAK>>]

\* lines 430-438 and 465-473: a numbered verse entry
EmitVerse(st, body, is_strict) ==
    [st EXCEPT
        !.result = @ \o <<<<>>,
                          verse_to_markdown(VerseMarkSub(body, 0),
                                            st.verse_num, is_strict)
                          \o LINE_BREAK>>]

RECURSIVE FillMissing(_, _)
\* lines 442-445: placeholder entries for the numbers before num
FillMissing(st, num) ==
    IF st.verse_num + 1 < num
    THEN FillMissing(
             [st EXCEPT
                 !.verse_num = @ + 1,
                 !.result = @ \o <<<<>>,
                                   StrOfInt(st.verse_num + 1)
                                   \o <<".", " ", EMPTY_SPACE>> \o LINE_BREAK>>],
             num)
    ELSE st

\* lines 403-411: the text before the first mark of the line, if any
EmitUnnumbered(st, verse, is_strict) ==
    IF Strip(verse) # <<>>
    THEN [st EXCEPT
            !.result = Append(@, verse_to_markdown(VerseMarkSub(verse, 0),
                                                   NoneInt, is_strict)
                                 \o LINE_BREAK)]
    ELSE st

\* lines 439-447: verse_num becomes the number of mark k, after the
\* placeholders if the mark is not the first of the line
NextVerseNum(st, k, num) ==
    IF k = 1 THEN [st EXCEPT !.verse_num = num]
    ELSE [FillMissing(st, num) EXCEPT !.verse_num = num]

\* lines 403-438: the text that ends at mark k is emitted
EmitBeforeMark(st, available, verse, multi, ev, is_strict) ==
    IF ~available
    THEN EmitUnnumbered(st, verse, is_strict)
    ELSE EmitVerse(BeforeVerse(st, multi, ev), verse, is_strict)

\* lines 401-448: the body of the loop over the verse marks for mark k
VerseMarkStep(s, marks, k, st, multi, ev, is_strict) ==
    [NextVerseNum(
         EmitBeforeMark(st, st.verse_num # 0,
                        Slice(s, st.start, marks[k].at - 1),
                        multi, ev, is_strict),
         k, marks[k].num)
     EXCEPT !.start = marks[k].at]

RECURSIVE VerseMarkLoop(_, _, _, _, _, _, _)
\* lines 400-448: the loop over the verse marks from mark k on
VerseMarkLoop(s, marks, k, st, multi, ev, is_strict) ==
    IF k > Len(marks) THEN st
    ELSE VerseMarkLoop(s, marks, k + 1,
                       VerseMarkStep(s, marks, k, st, multi, ev, is_strict),
                       multi, ev, is_strict)

\* a join that breaks the line with a newline in strict mode too
ContinuationJoinNewline(prev, body, is_strict) ==
    IF StartsWith(prev, SECTION_HEADER) THEN <<prev, LINE_BREAK, body>>
    ELSE <<prev \o LINE_BREAK \o body>>

\* lines 477-498: the element the line is joined to, and what follows it
ContinuationJoin(prev, body, is_strict) ==
    IF StartsWith(prev, SECTION_HEADER) THEN <<prev, LINE_BREAK, body>>
    ELSE IF is_strict
    THEN <<prev \o <<"<", "b", "r", ">", EMPTY_SPACE>> \o body>>
    ELSE <<prev \o LINE_BREAK \o body>>

\* lines 480, 488 and 494: the line is stripped after a section header and
\* in strict mode
ContinuationText(s, prev, is_strict) ==
    IF StartsWith(prev, SECTION_HEADER) \/ is_strict THEN Strip(s) ELSE s

\* lines 476-498 for the last element prev, stripped of its line breaks
ContinuationOf(s, prev, is_strict) ==
    ContinuationJoin(prev,
                     verse_to_markdown(ContinuationText(s, prev, is_strict),
                                       NoneInt, is_strict),
                     is_strict)

\* lines 474-498: a line that continues the previous one
Continuation(s, buf, is_strict) ==
    SubSeq(buf, 1, Len(buf) - 1)
    \o ContinuationOf(s, RStripBreaks(Last(buf)), is_strict)

\* lines 391-395: the buffer after the test for a paragraph start
AfterParagraphStart(s, buf) ==
    IF ParagraphStartMatch(s)
    THEN IF StartsWith(Last(buf), SECTION_HEADER)
         THEN Append(buf, <<>>)
         ELSE Append(buf, PARAGRAPH_BREAK)
    ELSE buf

\* line 499 and the state the next line starts from
LineResult(buf, result, chapter) ==
    [lines |-> buf \o result, start_chapter |-> chapter]

\* lines 449-473 and 499: the last verse of the line is emitted
LastVerse(st) == LineResult(st.lines, st.result, st.start_chapter)

\* the rest of the branch with the assertion turned round: start != 0
AfterVerseMarksAssertMoved(s, st, multi, ev, is_strict) ==
    IF st.verse_num > 0
    THEN LastVerse(EmitVerse(BeforeVerse(st, multi, ev),
                             SliceFrom(s, st.start), is_strict))
    ELSE IF st.start = 0 THEN Raise("AssertionError")
    ELSE LineResult(Continuation(s, st.lines, is_strict), st.result,
                    st.start_chapter)

\* lines 449-499: the rest of the branch after the loop over the marks
AfterVerseMarks(s, st, multi, ev, is_strict) ==
    IF st.verse_num > 0
    THEN LastVerse(EmitVerse(BeforeVerse(st, multi, ev),
                             SliceFrom(s, st.start), is_strict))
    ELSE IF st.start # 0 THEN Raise("AssertionError")
    ELSE LineResult(Continuation(s, st.lines, is_strict), st.result,
                    st.start_chapter)

\* lines 390-499: the branch for a line that starts with a space; the
\* result is the new buffer and start_chapter, or the exception raised
VerseLine(s, buf, chapter, multi, ev, is_strict) ==
    AfterVerseMarks(
        s,
        VerseMarkLoop(s, VerseMarks(s, 0), 1,
                      [start |-> 0, result |-> <<>>, verse_num |-> 0,
                       lines |-> AfterParagraphStart(s, buf),
                       start_chapter |-> chapter],
                      multi, ev, is_strict),
        multi, ev, is_strict)

RECURSIVE Join(_)
\* "\n".join(buf)
Join(buf) ==
    IF buf = <<>> THEN <<>>
    ELSE IF Len(buf) = 1 THEN buf[1]
    ELSE buf[1] \o <<"NL">> \o Join(Tail(buf))

(***************************************************************************)
(* Idle values of the components a specification does not exercise         *)
(***************************************************************************)
NavIdle ==
    /\ nav_book = NoneVal
    /\ nav_origin = 0
    /\ nav_dir = "none"
    /\ nav_steps = 0
    /\ nav_seen = {}

ParseIdle ==
    /\ citation = NoneVal
    /\ query = <<>>
    /\ parse_pc = "idle"
    /\ parse_shape = "none"
    /\ parse_result = NoneVal

ReflowIdle ==
    /\ text = <<>>
    /\ number = NoneInt
    /\ rstrict = FALSE
    /\ reflow_pc = 0
    /\ reflow_out = <<>>

ProcIdle ==
    /\ input_lines = <<>>
    /\ start_verse = NoneVal
    /\ end_verse = NoneVal
    /\ strict = FALSE
    /\ idx = 0
    /\ lines = <<>>
    /\ start_chapter = NoneInt
    /\ multi_chapter = FALSE
    /\ proc_pc = "idle"
    /\ proc_out = NoneVal

ResolveIdle ==
    /\ resolve_token = <<>>
    /\ resolve_pc = "idle"
    /\ resolve_result = NoneVal

(***************************************************************************)
(* Book navigation: Book.next and Book.prev pressed repeatedly             *)
(***************************************************************************)
MaxPresses == 67

InitNav ==
    /\ nav_origin \in 1..NumBooks
    /\ nav_book = from_number(nav_origin)
    /\ nav_dir \in {"next", "prev"}
    /\ nav_steps = 0
    /\ nav_seen = {nav_origin}
    /\ ParseIdle /\ ReflowIdle /\ ProcIdle /\ ResolveIdle

NavStep(target) ==
    /\ nav_steps < MaxPresses
    /\ ~IsError(nav_book)
    /\ nav_book' = target
    /\ nav_steps' = nav_steps + 1
    /\ nav_seen' = IF IsError(target) THEN nav_seen
                   ELSE nav_seen \cup {target.number}
    /\ UNCHANGED <<nav_origin, nav_dir, parseVars, reflowVars, procVars,
                   resolveVars>>

\* the forward button: cur_verse.book.next()
PressNext == nav_dir = "next" /\ NavStep(BookNext(nav_book))

\* the backward button: start_verse.book.prev()
PressPrev == nav_dir = "prev" /\ NavStep(BookPrev(nav_book))

NextNav == PressNext \/ PressPrev

SpecNav == InitNav /\ [][NextNav]_vars

\* book tokens of the citations: none ends in a digit, so that the chapter
\* number that follows starts at the first digit after the token
BookTokens ==
    {<<"g">>, <<"1", "c", "o", "r">>, <<"J", "n">>, <<"r", "e", "v">>,
     <<"b", "a", "r">>}

\* numbers as they are written in a citation
NumTokens == {<<"0">>, <<"1">>, <<"2">>, <<"1", "3">>}

VerseSeps == {":", "v"}

RangeSeps == {"-", "EN"}

\* an optional [:V] part
OptVerseTokens == {<<>>} \cup {<<s>> \o v : s \in VerseSeps, v \in NumTokens}

\* an optional range separator
OptRangeTokens == {<<>>} \cup {<<r>> : r \in RangeSeps}

\* the citations BOOK, BOOK C, BOOK C:V, BOOK C:V-V and BOOK C[:V]-C[:V]
\* by their parts; a part that is not written is the empty string
Citations ==
    {p \in [b : BookTokens, c1 : NumTokens \cup {<<>>}, o1 : OptVerseTokens,
            r : OptRangeTokens, c2 : NumTokens \cup {<<>>},
            o2 : OptVerseTokens] :
        /\ p.c1 = <<>> => p.o1 = <<>> /\ p.r = <<>>
        /\ (p.r = <<>>) = (p.c2 = <<>>)
        /\ p.c2 = <<>> => p.o2 = <<>>}

\* the citation as it is typed
Render(p) == p.b \o p.c1 \o p.o1 \o p.r \o p.c2 \o p.o2

\* characters of the free-form queries
QueryAlphabet == {"g", "0", "1", "2", ":", "-", " "}

MaxQueryLen == 4

\* every string over QueryAlphabet of at most MaxQueryLen characters
FreeQueries == UNION {[1..n -> QueryAlphabet] : n \in 0..MaxQueryLen}

InitParse ==
    /\ \/ citation \in Citations /\ query = Render(citation)
       \/ citation = NoneVal /\ query \in FreeQueries
    /\ parse_pc = "parsed_0"
    /\ parse_shape = "none"
    /\ parse_result = NoneVal
    /\ NavIdle /\ ReflowIdle /\ ProcIdle /\ ResolveIdle

\* a return statement of parse_query, or the exception of Book.get_book
ParseFinish(r, shape) ==
    /\ parse_result' = r
    /\ parse_shape' = shape
    /\ parse_pc' = IF IsError(r) THEN "raised" ELSE "returned"
    /\ UNCHANGED <<citation, query, navVars, reflowVars, procVars,
                   resolveVars>>

\* a shape that does not match: parse_query goes on to the next one
ParseFallThrough(next_pc) ==
    /\ parse_pc' = next_pc
    /\ UNCHANGED <<citation, query, parse_shape, parse_result, navVars,
                   reflowVars, procVars, resolveVars>>

\* parse_query lines 606-617
TryChaptersWithVerses ==
    /\ parse_pc = "parsed_0"
    /\ IF parse_chapters_with_verses(query) = NoMatch
       THEN ParseFallThrough("parsed_1")
       ELSE ParseFinish(ReturnChapters(parse_chapters_with_verses(query)),
                        "chapters_with_verses")

\* parse_query lines 619-630
TrySingleChapterWithVerses ==
    /\ parse_pc = "parsed_1"
    /\ IF parse_single_chapter_with_verses(query) = NoMatch
       THEN ParseFallThrough("parsed_2")
       ELSE ParseFinish(ReturnVerses(parse_single_chapter_with_verses(query)),
                        "single_chapter_with_verses")

\* parse_query lines 632-642
TrySingleChapterWithStartVerse ==
    /\ parse_pc = "parsed_2"
    /\ IF parse_single_chapter_with_start_verse(query) = NoMatch
       THEN ParseFallThrough("no_verse")
       ELSE ParseFinish(
                ReturnStartVerse(parse_single_chapter_with_start_verse(query)),
                "single_chapter_with_start_verse")

\* parse_query lines 644-652
SingleChapterNoVerse ==
    /\ parse_pc = "no_verse"
    /\ ParseFinish(ReturnNoVerse(parse_single_chapter_no_verse(query)),
                   "single_chapter_no_verse")

NextParse ==
    \/ TryChaptersWithVerses
    \/ TrySingleChapterWithVerses
    \/ TrySingleChapterWithStartVerse
    \/ SingleChapterNoVerse

SpecParse == InitParse /\ [][NextParse]_vars

(***************************************************************************)
(* verse_to_markdown applied to a text, and again to its own output        *)
(***************************************************************************)
\* fragments of verse prose the texts are put together from
Pieces ==
    {
       <<"a">>,
       <<" ">>,
       <<"a", " ">>,
       <<"a", ",", " ">>,
       <<"a", ";", " ">>,
       <<"a", ".", " ">>,
       <<"a", ".", "\"", " ">>,
       <<"a", ",", "(", "1", ")", " ">>,
       <<"s", "'", " ">>,
       <<"a", "'", " ">>,
       <<"'", "a">>,
       <<"\"", "a">>,
       <<"a", "n", "d", " ", "a", ".">>,
       <<"a", "n", "d", " ", "a", " ", "b", ".">>,
       <<"a", "n", "d", " ", "a", " ", "b", " ", "c">>,
       <<"a", "s", " ", "a", " ", "a", "s", " ", "a">>,
       <<"a", "s", " ", "a">>,
       <<"b", "u", "t", " ", "a">>,
       <<"W", "h", "e", "n", " ", "a", " ", "b", ",", " ">>
    }

MaxPieces == 2

RECURSIVE TextsOf(_)
\* the texts put together from exactly n pieces
TextsOf(n) ==
    IF n = 0 THEN {<<>>}
    ELSE {t \o p : t \in TextsOf(n - 1), p \in Pieces}

Texts == UNION {TextsOf(n) : n \in 0..MaxPieces}

\* number arguments: None, the sentinel 0 and verse numbers
ReflowNumbers == {NoneInt, 0, 1, 3, 12}

MaxReflows == 2

InitReflow ==
    /\ text \in Texts
    /\ number \in ReflowNumbers
    /\ rstrict \in BOOLEAN
    /\ reflow_pc = 0
    /\ reflow_out = <<>>
    /\ NavIdle /\ ParseIdle /\ ProcIdle /\ ResolveIdle

\* verse_to_markdown(text, number, strict)
Reflow ==
    /\ reflow_pc = 0
    /\ reflow_out' = <<verse_to_markdown(text, number, rstrict)>>
    /\ reflow_pc' = 1
    /\ UNCHANGED <<text, number, rstrict, navVars, parseVars, procVars,
                   resolveVars>>

\* verse_to_markdown(previous result, strict=strict) on the result of a
\* call that was given no number either
ReflowAgain ==
    /\ number = NoneInt
    /\ reflow_pc >= 1
    /\ reflow_pc < MaxReflows
    /\ reflow_out' =
           Append(reflow_out,
                  verse_to_markdown(reflow_out[reflow_pc], NoneInt, rstrict))
    /\ reflow_pc' = reflow_pc + 1
    /\ UNCHANGED <<text, number, rstrict, navVars, parseVars, procVars,
                   resolveVars>>

NextReflow == Reflow \/ ReflowAgain

SpecReflow == InitReflow /\ [][NextReflow]_vars

(***************************************************************************)
(* process(text, start_verse, end_verse, strict), one input line per step  *)
(***************************************************************************)
\* the title line of the raw text
TitleLine == <<"T">>

\* body lines of the raw text, as the fetch returns them
BodyLines ==
    {
       <<>>,
       <<"H">>,
       <<" ", " ", "[", "1", "]", " ", "a">>,
       <<" ", " ", "[", "2", "]", " ", "LDQ", "b", "RDQ">>,
       <<" ", " ", "[", "3", "]", " ", "a", " ", "[", "5", "]", " ", "b">>,
       <<" ", " ", "[", "5", "]", " ", "c">>,
       <<" ", " ", "[", "9", "]", " ", "a", " ", "[", "1", "]", " ", "b">>,
       <<" ", " ", " ", " ", "[", "1", "]", " ", "a">>,
       <<" ", " ", " ", " ", "c">>,
       <<" ", " ", "d">>,
       FOOTNOTES,
       <<"(", "1", ")", " ", "n", " ", "[", "4", "]", " ", "x">>,
       <<" ", " ", "a", " ", "[", "2", "]", " ", "b">>,
       <<" ", " ", "[", "0", "]", " ", "z">>,
       <<" ", " ", "[", "0", "]", " ", "a", " ", "[", "2", "]", " ", "b">>
    }

MaxBodyLines == 2

\* the title and at most MaxBodyLines body lines
TitledTexts ==
    UNION {{<<TitleLine>> \o body : body \in [1..n -> BodyLines]} :
              n \in 0..MaxBodyLines}

RECURSIVE DoubleBlanks(_)
\* the lines with every blank line written twice
DoubleBlanks(ls) ==
    IF ls = <<>> THEN <<>>
    ELSE (IF Head(ls) = <<>> THEN <<<<>>, <<>>>> ELSE <<Head(ls)>>)
         \o DoubleBlanks(Tail(ls))

\* the raw texts: the titled texts, with a blank line standing for one
\* blank line or for a run of two
RawTexts == TitledTexts \cup {DoubleBlanks(ls) : ls \in TitledTexts}

\* Verse(book=John, chapter_number=c, number=v)
JohnVerse(c, v) == Verse(from_number(43), c, v)

\* the (start_verse, end_verse) arguments: none, a start only, a range
\* within one chapter, whole chapters 15-16, and 15:9 to 16:2
CursorPairs ==
    {<<NoneVal, NoneVal>>,
     <<JohnVerse(15, 9), NoneVal>>,
     <<JohnVerse(15, 1), JohnVerse(15, 5)>>,
     <<JohnVerse(15, 0), JohnVerse(16, 0)>>,
     <<JohnVerse(15, 9), JohnVerse(16, 2)>>}

InitProc ==
    /\ input_lines \in RawTexts
    /\ \E cp \in CursorPairs : start_verse = cp[1] /\ end_verse = cp[2]
    /\ strict \in BOOLEAN
    /\ idx = 0
    /\ lines = <<>>
    /\ start_chapter = NoneInt
    /\ multi_chapter = FALSE
    /\ proc_pc = "start"
    /\ proc_out = NoneVal
    /\ NavIdle /\ ParseIdle /\ ReflowIdle /\ ResolveIdle

\* process_1 and lines 354-375 of process_2
ProcStart ==
    /\ proc_pc = "start"
    /\ input_lines' = [k \in 1..Len(input_lines) |-> process_1(input_lines[k])]
    /\ start_chapter' = InitialStartChapter(start_verse)
    /\ multi_chapter' = InitialMultiChapter(start_verse, end_verse)
    /\ lines' = <<>>
    /\ idx' = 0
    /\ proc_pc' = "loop"
    /\ UNCHANGED <<start_verse, end_verse, strict, proc_out, navVars,
                   parseVars, reflowVars, resolveVars>>

\* the line the loop of line 376 is at
CurrentLine == input_lines[idx + 1]

InLoop == proc_pc = "loop" /\ idx < Len(input_lines)

\* the end of an iteration that changed only the buffer
AppendLines(new_lines) ==
    /\ lines' = new_lines
    /\ idx' = idx + 1
    /\ UNCHANGED <<input_lines, start_verse, end_verse, strict, start_chapter,
                   multi_chapter, proc_pc, proc_out, navVars, parseVars,
                   reflowVars, resolveVars>>

\* lines 377-378: the title
ProcTitle ==
    /\ InLoop
    /\ idx = 0
    /\ AppendLines(Append(lines, HEADER \o <<" ">> \o CurrentLine \o LINE_BREAK))

\* lines 379-381: the line Footnotes
ProcFootnotes ==
    /\ InLoop
    /\ idx # 0
    /\ CurrentLine = FOOTNOTES
    /\ AppendLines(lines \o <<PARAGRAPH_BREAK,
                              SECTION_HEADER \o <<" ">> \o FOOTNOTES>>)

\* the branch of a blank line without the test lines[-1] != ""
ProcBlankAfterBlank ==
    /\ InLoop
    /\ idx # 0
    /\ CurrentLine # FOOTNOTES
    /\ Strip(CurrentLine) = <<>>
    /\ IF /\ ~StartsWith(Last(lines), HEADER)
          /\ ~StartsWith(Last(lines), SECTION_HEADER)
          /\ ~StartsWith(Last(lines), PARAGRAPH_BREAK)
       THEN AppendLines(Append(lines, <<>>))
       ELSE AppendLines(lines)

\* lines 382-389: a blank line
ProcBlank ==
    /\ InLoop
    /\ idx # 0
    /\ CurrentLine # FOOTNOTES
    /\ Strip(CurrentLine) = <<>>
    /\ IF /\ ~StartsWith(Last(lines), HEADER)
          /\ ~StartsWith(Last(lines), SECTION_HEADER)
          /\ ~StartsWith(Last(lines), PARAGRAPH_BREAK)
          /\ Last(lines) # <<>>
       THEN AppendLines(Append(lines, <<>>))
       ELSE AppendLines(lines)

\* the line is one for the branch of line 390
IsVerseLine(s) == s # FOOTNOTES /\ Strip(s) # <<>> /\ s[1] = " "

\* the end of the iteration for a line that starts with a space: the
\* exception leaves the loop, a result is the buffer of the next iteration
VerseLineDone(r) ==
    IF IsError(r)
    THEN /\ proc_pc' = "raised"
         /\ proc_out' = r
         /\ UNCHANGED <<lines, start_chapter, idx>>
    ELSE /\ lines' = r.lines
         /\ start_chapter' = r.start_chapter
         /\ idx' = idx + 1
         /\ UNCHANGED <<proc_pc, proc_out>>

\* lines 390-499: a line that starts with a space
ProcVerse ==
    /\ InLoop
    /\ idx # 0
    /\ IsVerseLine(CurrentLine)
    /\ VerseLineDone(VerseLine(CurrentLine, lines, start_chapter,
                               multi_chapter, end_verse, strict))
    /\ UNCHANGED <<input_lines, start_verse, end_verse, strict, multi_chapter,
                   navVars, parseVars, reflowVars, resolveVars>>

\* lines 500-502: a line that starts with a footnote mark
ProcFootnote ==
    /\ InLoop
    /\ idx # 0
    /\ CurrentLine # FOOTNOTES
    /\ Strip(CurrentLine) # <<>>
    /\ CurrentLine[1] # " "
    /\ FootnoteMarkMatch(CurrentLine)
    /\ AppendLines(Append(lines, FootnoteMarkSub(CurrentLine)))

\* the branch of a section header without the separator
ProcHeaderNoBreak ==
    /\ InLoop
    /\ idx # 0
    /\ CurrentLine # FOOTNOTES
    /\ Strip(CurrentLine) # <<>>
    /\ CurrentLine[1] # " "
    /\ ~FootnoteMarkMatch(CurrentLine)
    /\ AppendLines(Append(lines, SECTION_HEADER \o <<" ">> \o CurrentLine))

\* lines 503-505: any other line is a section header
ProcHeader ==
    /\ InLoop
    /\ idx # 0
    /\ CurrentLine # FOOTNOTES
    /\ Strip(CurrentLine) # <<>>
    /\ CurrentLine[1] # " "
    /\ ~FootnoteMarkMatch(CurrentLine)
    /\ AppendLines(lines \o <<PARAGRAPH_BREAK,
                              SECTION_HEADER \o <<" ">> \o CurrentLine>>)

\* line 506: the document
ProcReturn ==
    /\ proc_pc = "loop"
    /\ idx = Len(input_lines)
    /\ proc_pc' = "done"
    /\ proc_out' = Strip(Join(lines))
    /\ UNCHANGED <<input_lines, start_verse, end_verse, strict, idx, lines,
                   start_chapter, multi_chapter, navVars, parseVars,
                   reflowVars, resolveVars>>

NextProc ==
    \/ ProcStart
    \/ ProcTitle
    \/ ProcFootnotes
    \/ ProcBlank
    \/ ProcVerse
    \/ ProcFootnote
    \/ ProcHeader
    \/ ProcReturn

SpecProc == InitProc /\ [][NextProc]_vars

(***************************************************************************)
(* Book resolver: one call of Book.get_book                                *)
(***************************************************************************)
TokenAlphabet == {"g", "i", "n", "j", "o", "b", "G", " ", "0", "1"}

MaxTokenLen == 3

\* every string over TokenAlphabet of at most MaxTokenLen characters
Tokens == UNION {[1..n -> TokenAlphabet] : n \in 0..MaxTokenLen}

InitResolve ==
    /\ resolve_token \in Tokens
    /\ resolve_pc = "called"
    /\ resolve_result = NoneVal
    /\ NavIdle /\ ParseIdle /\ ReflowIdle /\ ProcIdle

\* get_book ends: r is the Book of a return statement or the exception
ResolveEnd(r) ==
    /\ resolve_result' = r
    /\ resolve_pc' = IF IsError(r) THEN "raised" ELSE "returned"
    /\ UNCHANGED <<resolve_token, navVars, parseVars, reflowVars, procVars>>

\* lines 139-175
Resolve ==
    /\ resolve_pc = "called"
    /\ ResolveEnd(get_book(resolve_token))

NextResolve == Resolve

SpecResolve == InitResolve /\ [][NextResolve]_vars

(***************************************************************************)
(* Rendering: a call of verse_to_markdown or a run of process              *)
(***************************************************************************)
\* what stands before " and " in the clauses: a comma, a semicolon, each
\* with a footnote marker too, and the comma of an opening phrase
AndLeads ==
    {
       <<"a", ",">>,
       <<"a", ";">>,
       <<"a", ",", "(", "1", ")">>,
       <<"a", ";", "(", "1", ")">>,
       <<"W", "h", "e", "n", " ", "a", " ", "b", ",">>
    }

\* what stands after " and " in the clauses
AndTails ==
    {
       <<"a", ".">>,
       <<"a", " ", "b", ".">>,
       <<"a", ";">>,
       <<"a", " ", "b", " ", "c">>,
       <<"a", " ", "b", " ", "c", ".">>,
       <<"'", "a">>,
       <<"a", ",", " ", "a", "n", "d", " ", "b", " ", "c", " ", "d">>
    }

\* clauses with the word and
AndTexts ==
    {lead \o <<" ", "a", "n", "d", " ">> \o tail :
        lead \in AndLeads, tail \in AndTails}

\* clauses with a link word and with the word as
LinkTexts ==
    {lead \o <<" ">> \o tail :
        lead \in AndLeads,
        tail \in {<<"b", "u", "t", " ", "a">>,
                  <<"a", "s", " ", "a">>,
                  <<"a", "s", " ", "a", " ", "a", "s", " ", "a">>}}

\* a verse in which a rule of each kind has a match
LongText ==
    <<"W", "h", "e", "n", " ", "a", " ", "b", ",", " ", "c", " ", "'", "d",
      "'", " ", "e", ".", "(", "1", ")", " ", "f", " ", "\"", "g", "!", "\"",
      " ", "h", ",", " ", "s", "o", " ", "i", ";", "(", "2", ")", " ", "a",
      "s", " ", "j", ",", " ", "a", "n", "d", " ", "k", " ", "l", " ", "m">>

\* texts of single calls: the empty text, the single phrases, the clauses
\* and the long verse
NumberedTexts ==
    {<<>>} \cup Pieces \cup AndTexts \cup LinkTexts \cup {LongText}

InitNumbered ==
    /\ text \in NumberedTexts
    /\ number \in ReflowNumbers
    /\ rstrict \in BOOLEAN
    /\ reflow_pc = 0
    /\ reflow_out = <<>>
    /\ NavIdle /\ ParseIdle /\ ProcIdle /\ ResolveIdle

InitRender == InitNumbered \/ InitProc

\* a behaviour is a call of verse_to_markdown or a run of process
NextRender == (proc_pc = "idle" /\ NextReflow) \/ NextProc

SpecRender == InitRender /\ [][NextRender]_vars

(***************************************************************************)
(* Claims about the structurer, checked under SpecProc                     *)
(***************************************************************************)
\* the verse number an element of the buffer is numbered with, -1 if the
\* element does not start with a number, a full stop and a space
VerseEntryNumber(e) ==
    IF /\ DigitEnd(e, 0) > 0
       /\ OccursAt(e, <<".", " ">>, DigitEnd(e, 0))
    THEN IntOfDigits(Slice(e, 0, DigitEnd(e, 0)))
    ELSE -1

\* the element is the entry of verse n with an empty body
IsPlaceholder(e, n) ==
    e = StrOfInt(n) \o <<".", " ", EMPTY_SPACE>> \o LINE_BREAK

RECURSIVE EmittedEntries(_)
\* the numbered entries of the buffer, in order
EmittedEntries(buf) ==
    IF buf = <<>> THEN <<>>
    ELSE LET n == VerseEntryNumber(Head(buf))
         IN  (IF n < 0 THEN <<>>
              ELSE <<[num |-> n, placeholder |-> IsPlaceholder(Head(buf), n)]>>)
             \o EmittedEntries(Tail(buf))

RECURSIVE MarkerNumbers(_)
\* the numbers of a sequence of marker matches
MarkerNumbers(marks) ==
    IF marks = <<>> THEN <<>>
    ELSE <<Head(marks).num>> \o MarkerNumbers(Tail(marks))

RECURSIVE BodyMarkers(_, _)
\* the numbers of the verse markers of the verse lines k.. of the text
BodyMarkers(ls, k) ==
    IF k > Len(ls) THEN <<>>
    ELSE (IF IsVerseLine(ls[k]) THEN MarkerNumbers(VerseMarks(ls[k], 0))
          ELSE <<>>)
         \o BodyMarkers(ls, k + 1)

RECURSIVE Skipped(_, _)
\* placeholder entries for the numbers a .. b - 1
Skipped(a, b) ==
    IF a >= b THEN <<>>
    ELSE <<[num |-> a, placeholder |-> TRUE]>> \o Skipped(a + 1, b)

RECURSIVE GapFilled(_, _)
\* the entries of the markers ms that follow a marker prev: one entry per
\* marker, and before a marker b > prev + 1 a placeholder for each skipped
\* number
GapFilled(prev, ms) ==
    IF ms = <<>> THEN <<>>
    ELSE Skipped(prev + 1, Head(ms))
         \o <<[num |-> Head(ms), placeholder |-> FALSE]>>
         \o GapFilled(Head(ms), Tail(ms))

\* the entries the markers ms call for; nothing precedes the first marker
ExpectedEntries(ms) ==
    IF ms = <<>> THEN <<>>
    ELSE <<[num |-> Head(ms), placeholder |-> FALSE]>>
         \o GapFilled(Head(ms), Tail(ms))

\* the 1-based indices of the entries numbered 1 of the buffer, in order
VerseOnePositions(buf) ==
    LET ones == {j \in 1..Len(buf) : VerseEntryNumber(buf[j]) = 1}
    IN  [k \in 1..Cardinality(ones) |->
            CHOOSE j \in ones : Cardinality({i \in ones : i < j}) = k - 1]

\* the element is a paragraph separator or a section header, with or
\* without a chapter marker edited into it
IsSeparatorOrHeader(e) ==
    \/ StartsWith(e, PARAGRAPH_BREAK)
    \/ StartsWith(e, SECTION_HEADER)
    \/ /\ StartsWith(e, <<"*">>)
       /\ Contains(e, LINE_BREAK \o SECTION_HEADER)

\* the places (element, offset) of the marker of chapter c in the buffer
MarkerPlaces(buf, c) ==
    {<<m, p>> \in (1..Len(buf)) \X (0..12) :
        OccursAt(buf[m], ChapterMark(c), p)}

\* the markers of the text fit a passage from sv to ev: it starts at the
\* start verse, numbers grow within a chapter, and verse 1 comes back once
\* for every chapter crossed into
PassageFits(ms, sv, ev) ==
    /\ ms # <<>>
    /\ ms[1] = (IF sv.number <= 1 THEN 1 ELSE sv.number)
    /\ \A k \in 2..Len(ms) : ms[k] = 1 \/ ms[k] > ms[k - 1]
    /\ Cardinality({k \in 2..Len(ms) : ms[k] = 1})
           = ev.chapter_number - sv.chapter_number

\* the marker of chapter c stands once in the document, in the separator or
\* section header that is the nearest one before the entry of verse 1 of
\* chapter c, and no verse entry stands between the two
MarkerPlaced(buf, sv, c) ==
    LET ones == VerseOnePositions(buf)
        k == c - sv.chapter_number + (IF sv.number <= 1 THEN 1 ELSE 0)
    IN  /\ k <= Len(ones)
        /\ \E m \in 1..(ones[k] - 1) :
              /\ \E p \in 0..12 : MarkerPlaces(buf, c) = {<<m, p>>}
              /\ IsSeparatorOrHeader(buf[m])
              /\ \A i \in (m + 1)..(ones[k] - 1) :
                    /\ VerseEntryNumber(buf[i]) < 0
                    /\ ~IsSeparatorOrHeader(buf[i])

(***************************************************************************)
(* C1: with start.chapter < end.chapter, for every chapter c with          *)
(* start.chapter < c <= end.chapter the document contains the marker *c*   *)
(* exactly once, in the separator or section header immediately preceding  *)
(* the first entry numbered 1 of chapter c, with no other verse entry      *)
(* between the marker and that verse 1.  The texts are those whose verse   *)
(* markers fit the passage from the start cursor to the end cursor.        *)
(***************************************************************************)
C1_ChapterMarkerBeforeVerseOne ==
    (/\ proc_pc = "done"
     /\ start_verse # NoneVal /\ end_verse # NoneVal
     /\ start_verse.chapter_number < end_verse.chapter_number
     /\ PassageFits(BodyMarkers(input_lines, 2), start_verse, end_verse))
    => \A c \in (start_verse.chapter_number + 1)..end_verse.chapter_number :
          MarkerPlaced(lines, start_verse, c)

(***************************************************************************)
(* C2: for consecutive verse markers a and b of the body with b > a + 1,   *)
(* on the same input line or on different lines, the document has between  *)
(* the entries of a and b exactly one empty-bodied placeholder entry for   *)
(* each of a+1 .. b-1, in increasing order, and none when b = a + 1.       *)
(***************************************************************************)
C2_GapsBackfilled ==
    proc_pc = "done"
    => EmittedEntries(lines) = ExpectedEntries(BodyMarkers(input_lines, 2))

(***************************************************************************)
(* Claims about the reflow formatter, checked under SpecReflow             *)
(***************************************************************************)
(***************************************************************************)
(* C3: for every text and both values of strict, applying                  *)
(* verse_to_markdown without a verse number to its own output inserts no   *)
(* further break: the second result equals the first.                      *)
(***************************************************************************)
C3_ReflowIdempotent ==
    (reflow_pc = 2 /\ number = NoneInt) => reflow_out[2] = reflow_out[1]

(***************************************************************************)
(* Claims about the reference parser, checked under SpecParse              *)
(***************************************************************************)
ParseEnded == parse_pc \in {"returned", "raised"}

\* the number written after the separator of an optional [:V] part, 0 if
\* the part is not written
WrittenVerse(o) == IF o = <<>> THEN 0 ELSE IntOfDigits(Tail(o))

\* parse_query ended as a call that resolves token once and returns the
\* cursors (c1, v1) and (c2, v2) would
EndedWithRange(token, c1, v1, c2, v2) ==
    IF IsError(get_book(token))
    THEN parse_pc = "raised" /\ parse_result = get_book(token)
    ELSE /\ parse_pc = "returned"
         /\ parse_result.start.book = get_book(token)
         /\ parse_result.start.chapter_number = c1
         /\ parse_result.start.number = v1
         /\ parse_result.end # NoneVal
         /\ parse_result.end.book = get_book(token)
         /\ parse_result.end.chapter_number = c2
         /\ parse_result.end.number = v2

\* parse_query ended as a call that returns the cursor (c, v) and no end
EndedWithStart(token, c, v) ==
    IF IsError(get_book(token))
    THEN parse_pc = "raised" /\ parse_result = get_book(token)
    ELSE /\ parse_pc = "returned"
         /\ parse_result.start.book = get_book(token)
         /\ parse_result.start.chapter_number = c
         /\ parse_result.start.number = v
         /\ parse_result.end = NoneVal

\* the citation is b c:v1-v2, one number after the range separator
IsVerseRange(p) ==
    /\ p # NoneVal
    /\ p.o1 # <<>> /\ p.r # <<>> /\ p.o2 = <<>>

\* the citation is b c1[:v1]-c2[:v2]
IsCrossChapter(p) == p # NoneVal /\ p.r # <<>>

(***************************************************************************)
(* C4: b c:v1-v2 with v1 >= 1 returns start = (Resolve(b), c, v1) and      *)
(* end = (Resolve(b), c, v2): the cross-chapter shape rejects the query    *)
(* and the verse-range shape returns, so v2 is never an end chapter.       *)
(***************************************************************************)
C4_VerseRangeKeepsChapter ==
    (ParseEnded /\ IsVerseRange(citation) /\ WrittenVerse(citation.o1) >= 1)
    => /\ parse_shape = "single_chapter_with_verses"
       /\ EndedWithRange(citation.b, IntOfDigits(citation.c1),
                         WrittenVerse(citation.o1), IntOfDigits(citation.c1),
                         IntOfDigits(citation.c2))

\* 1cor2:1-13 has returned verses 1 to 13 of chapter 2
C4_Witness ==
    /\ parse_pc = "returned"
    /\ query = <<"1", "c", "o", "r", "2", ":", "1", "-", "1", "3">>
    /\ parse_result.start.book.number = 46
    /\ parse_result.end.chapter_number = 2
    /\ parse_result.end.number = 13

C6_NoRangeSeparator ==
    ParseEnded
    => /\ (parse_pc = "returned"
              /\ \A k \in 1..Len(query) : ~IsRangeSep(query[k]))
          => parse_result.end = NoneVal
       /\ (citation # NoneVal /\ citation.r = <<>> /\ citation.o1 # <<>>)
          => EndedWithStart(citation.b, IntOfDigits(citation.c1),
                            WrittenVerse(citation.o1))
       /\ (citation # NoneVal /\ citation.r = <<>> /\ citation.o1 = <<>>
              /\ citation.c1 # <<>>)
          => EndedWithStart(citation.b, IntOfDigits(citation.c1), 0)
       /\ (citation # NoneVal /\ citation.c1 = <<>>)
          => EndedWithStart(citation.b, 1, 0)

\* the book token Jn alone has returned John 1 with no verse and no end
C6_Witness ==
    /\ parse_pc = "returned"
    /\ query = <<"J", "n">>
    /\ parse_result.start.book.number = 43
    /\ parse_result.start.chapter_number = 1
    /\ parse_result.start.number = 0
    /\ parse_result.end = NoneVal

RECURSIVE SeparatorVariants(_, _)
\* the strings got from q by writing, at any separator that stands between
\* two digits from offset k on, the other separator of its class
SeparatorVariants(q, k) ==
    IF k > Len(q) THEN {q}
    ELSE LET rest == SeparatorVariants(q, k + 1)
             between == /\ k > 1 /\ k < Len(q)
                        /\ IsDigit(q[k - 1]) /\ IsDigit(q[k + 1])
             alts == IF between /\ q[k] \in VerseSeps THEN VerseSeps
                     ELSE IF between /\ q[k] \in RangeSeps THEN RangeSeps
                     ELSE {q[k]}
         IN  {[u EXCEPT ![k] = a] : u \in rest, a \in alts}

(***************************************************************************)
(* C7: in a citation of the shapes BOOK C:V, BOOK C:V-V, BOOK C[:V]-C[:V], *)
(* writing v for : (or back) and the en-dash for - (or back) at any        *)
(* separator yields an equal result.                                       *)
(***************************************************************************)
C7_SeparatorsInterchangeable ==
    (ParseEnded /\ citation # NoneVal /\ citation.c1 # <<>>)
    => \A q \in SeparatorVariants(query, 1) : parse_query(q) = parse_result

\* 1cor2v1 EN 13 has returned, and 1cor2:1-13 is one of its variants
C7_Witness ==
    /\ parse_pc = "returned"
    /\ query = <<"1", "c", "o", "r", "2", "v", "1", "EN", "1", "3">>
    /\ <<"1", "c", "o", "r", "2", ":", "1", "-", "1", "3">>
           \in SeparatorVariants(query, 1)
    /\ parse_result.end.number = 13

(***************************************************************************)
(* C8: for every query the grammar stage raises nothing and falls through  *)
(* to the chapter-only shape with chapter defaulting to 1; the only        *)
(* failure parse_query can end in is BookNotFound from the resolver.       *)
(***************************************************************************)
C8_OnlyBookNotFound ==
    /\ parse_pc = "raised" => parse_result = Raise("BookNotFound")
    /\ (ParseEnded /\ parse_shape = "single_chapter_no_verse"
           /\ \A k \in 1..Len(query) : ~IsDigit(query[k]))
       => (parse_pc = "returned" => parse_result.start.chapter_number = 1)

(***************************************************************************)
(* C9: a returned range with an end cursor has end.book = start.book and   *)
(* is non-decreasing: end.chapter > start.chapter, or end.chapter =        *)
(* start.chapter and end.verse >= start.verse.                             *)
(***************************************************************************)
C9_RangeNonDecreasing ==
    (parse_pc = "returned" /\ parse_result.end # NoneVal)
    => /\ parse_result.end.book = parse_result.start.book
       /\ \/ parse_result.end.chapter_number
                > parse_result.start.chapter_number
          \/ /\ parse_result.end.chapter_number
                    = parse_result.start.chapter_number
             /\ parse_result.end.number >= parse_result.start.number

(***************************************************************************)
(* C10: for every book with ordinal 1..66, next(prev(b)) = b and           *)
(* prev(next(b)) = b; next of ordinal 66 is ordinal 1 and prev of ordinal  *)
(* 1 is ordinal 66; pressing the same button repeatedly from any book      *)
(* comes back to it after exactly 66 presses, not sooner, having visited   *)
(* all 66 books.                                                           *)
(***************************************************************************)
C10_NextPrevCycle ==
    /\ ~IsError(nav_book)
    /\ nav_book.number \in 1..66
    /\ BookNext(BookPrev(nav_book)) = nav_book
    /\ BookPrev(BookNext(nav_book)) = nav_book
    /\ (nav_book.number = 66 => BookNext(nav_book) = from_number(1))
    /\ (nav_book.number = 1 => BookPrev(nav_book) = from_number(66))
    /\ (nav_steps \in 1..65 => nav_book.number # nav_origin)
    /\ (nav_steps = 66 =>
            nav_book.number = nav_origin /\ nav_seen = 1..66)
    /\ (nav_steps < 66 => Cardinality(nav_seen) = nav_steps + 1)

\* a walk backwards from Genesis has wrapped to Revelation and come back
C10_Witness ==
    /\ nav_dir = "prev"
    /\ nav_origin = 1
    /\ nav_steps = 66
    /\ nav_book.number = 1

(***************************************************************************)
(* Claims about the book resolver, checked under SpecResolve               *)
(***************************************************************************)
\* the call of get_book has ended
ResolveEnded == resolve_pc \in {"returned", "raised"}

\* the token as the rules see it: lower case, spaces deleted
NormalizedToken == RemoveChars(Lower(resolve_token), {" "})

\* the 66 books of the catalog
CatalogBooks == {from_number(n) : n \in 1..NumBooks}

\* rule k of the seven rules matches the normalized token
RuleMatches(k, value) ==
    CASE k = 1 -> IsIntLiteral(value) /\ PyInt(value) \in 1..NumBooks
      [] k = 2 -> InReverseLookup(value)
      [] k = 3 -> InSpecialAbbreviations(value)
      [] k = 4 -> InReverseLookupNoVowels(value)
      [] k = 5 -> \E n \in 1..NumBooks : StartsWith(ReverseKey(n), value)
      [] k = 6 -> \E n \in 1..NumBooks : Contains(ReverseKey(n), value)
      [] k = 7 -> FuzzyMatched(value) # {}

SomeRuleMatches(value) == \E k \in 1..7 : RuleMatches(k, value)

\* the first rule, in the fixed order, that matches
FirstRule(value) ==
    CHOOSE k \in 1..7 :
        RuleMatches(k, value) /\ \A j \in 1..(k - 1) : ~RuleMatches(j, value)

(***************************************************************************)
(* C11: for every token, integers outside 1..66 included, get_book either  *)
(* returns one of the 66 catalog books or raises BookNotFound and no other *)
(* exception; it raises BookNotFound exactly when none of the seven rules  *)
(* matches the token.                                                      *)
(***************************************************************************)
C11_BookOrBookNotFound ==
    ResolveEnded =>
        IF SomeRuleMatches(NormalizedToken)
        THEN resolve_pc = "returned" /\ resolve_result \in CatalogBooks
        ELSE resolve_pc = "raised"
             /\ resolve_result = Raise("BookNotFound")

\* the ordinals a rule may return for the token: the ordinal itself, the
\* book of the key or abbreviation, the first key in catalog order for the
\* prefix and substring rules, any candidate for the fuzzy rule
RuleOrdinals(k, value) ==
    CASE k = 1 -> {PyInt(value)}
      [] k = 2 -> {n \in 1..NumBooks : ReverseKey(n) = value}
      [] k = 3 -> {n \in 1..NumBooks :
                      BOOKS[n].name = SpecialAbbreviation(value)}
      [] k = 4 -> {n \in 1..NumBooks : NoVowelKey(n) = value}
      [] k = 5 -> {n \in 1..NumBooks :
                      /\ StartsWith(ReverseKey(n), value)
                      /\ \A m \in 1..(n - 1) :
                             ~StartsWith(ReverseKey(m), value)}
      [] k = 6 -> {n \in 1..NumBooks :
                      /\ Contains(ReverseKey(n), value)
                      /\ \A m \in 1..(n - 1) :
                             ~Contains(ReverseKey(m), value)}
      [] k = 7 -> FuzzyMatched(value)

(***************************************************************************)
(* C12: a Book that get_book returns is the result of the first rule that  *)
(* matches in the order integer 1..66 (the catalog entry of that ordinal), *)
(* exact normalized name, abbreviation table, vowel-stripped name, prefix, *)
(* substring, fuzzy; the prefix and substring rules return the first       *)
(* matching name in catalog declaration order.                             *)
(***************************************************************************)
C12_FirstMatchingRule ==
    resolve_pc = "returned" =>
        /\ SomeRuleMatches(NormalizedToken)
        /\ resolve_result \in CatalogBooks
        /\ resolve_result.number
               \in RuleOrdinals(FirstRule(NormalizedToken), NormalizedToken)

\* the prefix rule has returned a book that differs from the book the
\* substring rule would return
C12_Witness ==
    /\ resolve_pc = "returned"
    /\ FirstRule(NormalizedToken) = 5
    /\ resolve_result.number \notin RuleOrdinals(6, NormalizedToken)

\* the upper case letter of a character, or the character itself
UpperChar(c) ==
    IF c \in LowerLetters
    THEN CHOOSE u \in UpperLetters : LowerOf[u] = c
    ELSE c

\* str.upper()
Upper(s) == [k \in 1..Len(s) |-> UpperChar(s[k])]

\* s with a space inserted after its first p characters
WithSpaceAt(s, p) == SubSeq(s, 1, p) \o <<" ">> \o SubSeq(s, p + 1, Len(s))

\* other spellings of the token that are equal to it after lower-casing
\* and deleting spaces
Respellings(s) ==
    {RemoveChars(Lower(s), {" "}), Upper(s)}
        \cup {WithSpaceAt(s, p) : p \in 1..(Len(s) - 1)}

(***************************************************************************)
(* C13: get_book is invariant under letter case and under inserting or     *)
(* removing spaces: every respelling of the token that is equal to it      *)
(* after lower-casing and deleting spaces gives the same Book or the same  *)
(* failure.                                                                *)
(***************************************************************************)
C13_CaseAndSpaceInvariant ==
    ResolveEnded =>
        \A t \in Respellings(resolve_token) : get_book(t) = resolve_result

\* a token with an upper case letter and a space has resolved to the book
\* of its normalized form, which is a different string
C13_Witness ==
    /\ resolve_pc = "returned"
    /\ \E k \in 1..Len(resolve_token) : resolve_token[k] \in UpperLetters
    /\ \E k \in 1..Len(resolve_token) : resolve_token[k] = " "
    /\ Len(NormalizedToken) >= 2
    /\ resolve_result = get_book(NormalizedToken)

\* the score of the token against the name of ordinal n
FuzzyScore(value, n) == fuzzy_match(value, ReverseKey(n))

RECURSIVE SubsequenceFrom(_, _, _, _)
\* the greedy left-to-right match of the phrase as a subsequence of base in
\* which every character takes a position of its own at or after the
\* 0-based position cur: the sum of the positions, or -1 if a character
\* does not occur
SubsequenceFrom(phrase, base, cur, score) ==
    IF phrase = <<>> THEN score
    ELSE IF phrase[1] = " "
         THEN SubsequenceFrom(Tail(phrase), base, cur, score)
    ELSE IF \A k \in (cur + 1)..Len(base) : base[k] # phrase[1] THEN -1
    ELSE LET at == cur + IndexOf(SliceFrom(base, cur), phrase[1])
         IN  SubsequenceFrom(Tail(phrase), base, at + 1, score + at)

\* the token occurs in the name of ordinal n as a subsequence
IsSubsequence(value, n) == SubsequenceFrom(value, ReverseKey(n), 0, 0) # -1

\* the fuzzy rule has returned the Book
ReturnedByFuzzy == resolve_pc = "returned" /\ FirstRule(NormalizedToken) = 7

(***************************************************************************)
(* C15: the fuzzy rule takes a catalog name for a candidate only if the    *)
(* characters of the token occur in the name in order as a subsequence,    *)
(* each matched at its own position strictly to the right of the previous  *)
(* match; a name in which a character fails to occur in order is never     *)
(* returned by the fuzzy rule.                                             *)
(***************************************************************************)
C15_FuzzyCandidatesAreSubsequences ==
    ReturnedByFuzzy =>
        /\ \A n \in FuzzyMatched(NormalizedToken) :
               IsSubsequence(NormalizedToken, n)
        /\ IsSubsequence(NormalizedToken, resolve_result.number)

\* the candidates of the fuzzy rule with the lowest score
LowestScored(value) ==
    {n \in FuzzyMatched(value) :
        \A m \in FuzzyMatched(value) :
            FuzzyScore(value, n) <= FuzzyScore(value, m)}

\* every name is matched, and scored, with each character of the token at
\* a position of its own
MatchedInOrder(value) ==
    \A n \in 1..NumBooks :
        FuzzyScore(value, n) = SubsequenceFrom(value, ReverseKey(n), 0, 0)

(***************************************************************************)
(* C14: in the fuzzy rule the candidate with the lowest total score wins,  *)
(* and of several candidates with the same lowest score the one with the   *)
(* lowest ordinal, first in catalog declaration order, is returned.  The   *)
(* tokens are those whose characters are matched at positions of their own *)
(* in every name, where the candidates and the scores are not in question. *)
(***************************************************************************)
C14_FuzzyTieByCatalogOrder ==
    ReturnedByFuzzy /\ MatchedInOrder(NormalizedToken) =>
        /\ resolve_result.number \in LowestScored(NormalizedToken)
        /\ \A n \in LowestScored(NormalizedToken) :
               resolve_result.number <= n

(***************************************************************************)
(* Claims about the lines of the structurer, checked under SpecProc        *)
(***************************************************************************)
\* an iteration of the loop has just consumed a body line
LineDone == proc_pc = "loop" /\ idx >= 2

\* the body line the last iteration consumed
DoneLine == input_lines[idx]

\* the line Footnotes was consumed before the last line
AfterFootnotes == \E j \in 2..(idx - 1) : input_lines[j] = FOOTNOTES

\* s ends with the suffix e
EndsWith(s, e) ==
    Len(s) >= Len(e) /\ SubSeq(s, Len(s) - Len(e) + 1, Len(s)) = e

(***************************************************************************)
(* C16: once the line Footnotes has been processed, every later non-blank  *)
(* line that does not start with a footnote marker (n) is passed through   *)
(* unchanged: the buffer ends with the line itself, as an element or as    *)
(* the last line of the element before it; it is not made a section        *)
(* header, gets no separator and is not rewritten by verse_to_markdown.    *)
(***************************************************************************)
C16_PassThroughAfterFootnotes ==
    (/\ LineDone
     /\ AfterFootnotes
     /\ Strip(DoneLine) # <<>>
     /\ DoneLine # FOOTNOTES
     /\ ~FootnoteMarkMatch(DoneLine))
        => \/ Last(lines) = DoneLine
           \/ EndsWith(Last(lines), LINE_BREAK \o DoneLine)

\* the digits of the footnote marker the line starts with
MarkerDigits(s) == Slice(s, 1, DigitEnd(s, 1))

\* the line after its footnote marker
AfterMarker(s) == SliceFrom(s, DigitEnd(s, 1) + 1)

(***************************************************************************)
(* C17: the line Footnotes is emitted as a separator element followed by   *)
(* "## Footnotes", and an unindented line that starts with a footnote      *)
(* marker (n) is emitted as the list entry "- (n)" followed by the rest of *)
(* the line unchanged, with or without a line Footnotes before it and      *)
(* with or without verse markers [m] in it.                                *)
(***************************************************************************)
C17_FootnoteLines ==
    LineDone =>
        /\ DoneLine = FOOTNOTES =>
               /\ Len(lines) >= 3
               /\ Last2(lines) = <<"-", "-", "-", "NL">>
               /\ Last(lines) = <<"#", "#", " ">> \o FOOTNOTES
        /\ (DoneLine # FOOTNOTES /\ FootnoteMarkMatch(DoneLine)) =>
               Last(lines) = <<"-", " ", "(">> \o MarkerDigits(DoneLine)
                                 \o <<")">> \o AfterMarker(DoneLine)

\* a footnote line with a verse marker in it has become a list entry, with
\* no line Footnotes before it
C17_Witness ==
    /\ LineDone
    /\ ~AfterFootnotes
    /\ FootnoteMarkMatch(DoneLine)
    /\ VerseMarks(DoneLine, 0) # <<>>
    /\ Last(lines) = <<"-", " ">> \o DoneLine

\* the first element of the buffer is the title
IsTitleElement(buf, k) == k = 1

IsSectionHeaderElement(e) == StartsWith(e, <<"#", "#">>)

IsSeparatorElement(e) == StartsWith(e, <<"-", "-", "-", "NL">>)

\* the step of the loop over a blank line
BlankStep ==
    /\ proc_pc = "loop"
    /\ idx >= 1
    /\ idx < Len(input_lines)
    /\ idx' = idx + 1
    /\ Strip(input_lines[idx + 1]) = <<>>

(***************************************************************************)
(* C18: a blank line appends a blank element only if the last element of   *)
(* the buffer is not the title, not a section header, not a separator and  *)
(* not blank; so a blank line that follows a blank line appends nothing,   *)
(* and a blank line directly after a title, section header or separator    *)
(* appends nothing.                                                        *)
(***************************************************************************)
C18_BlankLines ==
    [][BlankStep =>
          /\ lines' = lines \/ lines' = Append(lines, <<>>)
          /\ lines' # lines =>
                 /\ ~IsTitleElement(lines, Len(lines))
                 /\ ~IsSectionHeaderElement(Last(lines))
                 /\ ~IsSeparatorElement(Last(lines))
                 /\ Last(lines) # <<>>
          /\ (idx >= 2 /\ Strip(input_lines[idx]) = <<>>) => lines' = lines
          /\ (\/ IsTitleElement(lines, Len(lines))
              \/ IsSectionHeaderElement(Last(lines))
              \/ IsSeparatorElement(Last(lines))) => lines' = lines
      ]_vars

\* a run of two blank lines after a verse line has added one blank element
C18_Witness ==
    /\ proc_pc = "loop"
    /\ idx = 4
    /\ IsVerseLine(input_lines[2])
    /\ input_lines[3] = <<>>
    /\ input_lines[4] = <<>>
    /\ Last(lines) = <<>>
    /\ Last2(lines) # <<>>

\* a line for the last branch of the loop: not blank, not indented, not
\* Footnotes, no footnote marker
IsHeaderLine(s) ==
    /\ Strip(s) # <<>>
    /\ s[1] # " "
    /\ s # FOOTNOTES
    /\ ~FootnoteMarkMatch(s)

\* a section header element, also one a chapter marker was injected into
IsHeaderElement(e) ==
    \/ StartsWith(e, <<"#", "#", " ">>)
    \/ StartsWith(e, <<"*">>) /\ Contains(e, <<"*", "NL", "#", "#", " ">>)

(***************************************************************************)
(* C19: every line after line 0 that is not blank, not indented, not       *)
(* Footnotes and not a footnote line is emitted as a separator element     *)
(* directly followed by the element "## " + line; so every section header  *)
(* element of the buffer stands directly after a separator element.        *)
(***************************************************************************)
C19_SectionHeaders ==
    /\ (LineDone /\ IsHeaderLine(DoneLine)) =>
           /\ Len(lines) >= 3
           /\ Last2(lines) = <<"-", "-", "-", "NL">>
           /\ Last(lines) = <<"#", "#", " ">> \o DoneLine
    /\ \A k \in 1..Len(lines) :
           IsHeaderElement(lines[k]) =>
               k > 1 /\ IsSeparatorElement(lines[k - 1])

\* a section header that a chapter marker was injected into stands after
\* its separator
C19_Witness ==
    \E k \in 2..Len(lines) :
        /\ StartsWith(lines[k], <<"*">>)
        /\ IsHeaderElement(lines[k])
        /\ lines[k - 1] = <<"-", "-", "-", "NL">>

(***************************************************************************)
(* Claims about the number prefix, checked under SpecRender                *)
(***************************************************************************)
\* a document or element has a line that starts as the entry of verse 0
HasZeroEntry(s) == Contains(<<"NL">> \o s, <<"NL", "0", ".", " ">>)

(***************************************************************************)
(* C20: verse_to_markdown prefixes its result with "N. " exactly when a    *)
(* verse number N >= 1 is given; with no number or with the sentinel 0     *)
(* the result has no number prefix; neither verse_to_markdown nor the      *)
(* structurer renders an entry numbered 0.                                 *)
(***************************************************************************)
C20_NumberPrefix ==
    /\ (reflow_pc >= 1 /\ number >= 1) =>
           /\ StartsWith(reflow_out[1], StrOfInt(number) \o <<".", " ">>)
           /\ VerseEntryNumber(reflow_out[1]) = number
    /\ (reflow_pc >= 1 /\ number \in {NoneInt, 0}) =>
           VerseEntryNumber(reflow_out[1]) = -1
    /\ \A k \in 1..Len(reflow_out) : ~HasZeroEntry(reflow_out[k])
    /\ \A k \in 1..Len(lines) :
           VerseEntryNumber(lines[k]) # 0 /\ ~HasZeroEntry(lines[k])
    /\ proc_pc = "done" => ~HasZeroEntry(proc_out)

\* the sentinel 0 was given with a text and the result has no prefix
C20_Witness ==
    /\ reflow_pc = 1
    /\ number = 0
    /\ text # <<>>
    /\ VerseEntryNumber(reflow_out[1]) = -1

(***************************************************************************)
(* Claims about the line buffer, checked under SpecProc                    *)
(***************************************************************************)
\* a step of the loop over the input lines that ends in the loop
LoopStep == proc_pc = "loop" /\ proc_pc' = "loop" /\ idx' = idx + 1

\* the last element of the buffer was changed and elements were put after it
EditedBeforeNew ==
    /\ Len(lines) >= 1
    /\ Len(lines') > Len(lines)
    /\ lines'[Len(lines)] # lines[Len(lines)]

(***************************************************************************)
(* C21: the buffer is append-only while the document is built: an          *)
(* iteration leaves every element but the last as it was; the only edit of *)
(* an element that has a later element after it is the injection of the    *)
(* chapter marker into a section header that is followed by one blank      *)
(* element; any other edit touches only the last element of the buffer.    *)
(***************************************************************************)
C21_AppendOnly ==
    [][LoopStep =>
          /\ Len(lines') >= Len(lines)
          /\ \A k \in 1..(Len(lines) - 1) : lines'[k] = lines[k]
          /\ EditedBeforeNew =>
                 /\ StartsWith(Last(lines), <<"#", "#", " ">>)
                 /\ lines'[Len(lines)] =
                        <<"*">> \o StrOfInt(start_chapter) \o <<"*", "NL">>
                            \o Last(lines)
                 /\ lines'[Len(lines) + 1] = <<>>
                 /\ start_chapter' = start_chapter + 1
      ]_vars

\* the iteration over a verse line has injected the marker of chapter 15
\* into the section header before it, which a blank element follows
C21_Witness ==
    /\ proc_pc = "loop"
    /\ idx = 3
    /\ IsVerseLine(input_lines[3])
    /\ start_chapter = 16
    /\ \E k \in 2..(Len(lines) - 1) :
           /\ lines[k] = <<"*", "1", "5", "*", "NL", "#", "#", " ">>
                             \o input_lines[2]
           /\ lines[k + 1] = <<>>

(***************************************************************************)
(* Claims about strict mode, checked under SpecRender                      *)
(***************************************************************************)
\* the number of places where p occurs in s
Occurrences(s, p) == Cardinality({a \in 0..Len(s) : OccursAt(s, p, a)})

\* the break of strict mode
STRICT_BREAK == <<"<", "b", "r", ">", EMPTY_SPACE>>

\* what the result res has more than the argument arg is breaks of strict
\* mode: no newline, and as many "<" and fixed-width spaces as breaks
OnlyStrictBreaks(arg, res) ==
    /\ Occurrences(res, <<"NL">>) = Occurrences(arg, <<"NL">>)
    /\ Occurrences(res, <<EMPTY_SPACE>>) - Occurrences(arg, <<EMPTY_SPACE>>)
           = Occurrences(res, STRICT_BREAK) - Occurrences(arg, STRICT_BREAK)
    /\ Occurrences(res, <<"<">>) - Occurrences(arg, <<"<">>)
           = Occurrences(res, STRICT_BREAK) - Occurrences(arg, STRICT_BREAK)

\* the argument of the call of verse_to_markdown that a step has made
ReflowArgument == IF reflow_pc = 0 THEN text ELSE reflow_out[reflow_pc]

\* the line of the iteration is indented, has no verse marker and starts no
\* paragraph, and the last element of the buffer is the entry of a verse
ContinuesOpenVerse ==
    /\ IsVerseLine(CurrentLine)
    /\ VerseMarks(CurrentLine, 0) = <<>>
    /\ ~ParagraphStartMatch(CurrentLine)
    /\ lines # <<>>
    /\ VerseEntryNumber(Last(lines)) >= 1

(***************************************************************************)
(* C22: in strict mode no break is rendered as a newline.  The result of   *)
(* verse_to_markdown(text, n, strict=True) has a newline only where the    *)
(* text has one, every break it inserts being "<br>" and one fixed-width   *)
(* space; and an indented line without verse marker that directly follows  *)
(* an open verse is joined onto the entry of that verse with "<br>" and    *)
(* the space, so that the entry with its continuations has no newline.     *)
(***************************************************************************)
C22_StrictBreaks ==
    [][/\ (rstrict /\ reflow_pc' = reflow_pc + 1) =>
              OnlyStrictBreaks(ReflowArgument, reflow_out'[reflow_pc'])
       /\ (strict /\ LoopStep /\ ContinuesOpenVerse) =>
              /\ Len(lines') = Len(lines)
              /\ \A k \in 1..(Len(lines) - 1) : lines'[k] = lines[k]
              /\ StartsWith(Last(lines'),
                            RStripBreaks(Last(lines)) \o STRICT_BREAK)
              /\ ~Contains(Last(lines'), <<"NL">>)
              /\ VerseEntryNumber(Last(lines')) = VerseEntryNumber(Last(lines))
      ]_vars

\* in strict mode the line "    c" was joined onto the entry of verse 1
C22_Witness ==
    /\ strict
    /\ proc_pc = "loop"
    /\ idx = 3
    /\ input_lines[3] = <<" ", " ", " ", " ", "c">>
    /\ Last(lines) = <<"1", ".", " ", "a">> \o STRICT_BREAK \o <<"c">>

(***************************************************************************)
(* Claims about the rule for and, checked under SpecRender                 *)
(***************************************************************************)
\* the offsets of the word and in s
AndOffsets(s) ==
    {a \in 0..Len(s) :
        /\ OccursAt(s, <<"a", "n", "d">>, a)
        /\ ~IsWord(CharAt(s, a - 1))
        /\ ~IsWord(CharAt(s, a + 3))}

\* the i-th offset of a set of offsets, counted from 1
NthOffset(offsets, i) ==
    CHOOSE q \in offsets : Cardinality({r \in offsets : r < q}) = i - 1

\* m is empty or a footnote marker (n)
IsOptionalMarker(m) ==
    \/ m = <<>>
    \/ /\ Len(m) >= 3
       /\ m[1] = "(" /\ m[Len(m)] = ")"
       /\ AllDigits(SubSeq(m, 2, Len(m) - 1))

\* the word and at offset a of s follows a comma or semicolon, an optional
\* footnote marker and one space, and a space follows it
FollowsCommaOrSemicolon(s, a) ==
    /\ CharAt(s, a - 1) = " "
    /\ CharAt(s, a + 3) = " "
    /\ \E p \in 0..(a - 2) :
           /\ CharAt(s, p) \in {",", ";"}
           /\ IsOptionalMarker(Slice(s, p + 1, a - 1))

\* w is one word, or two words with one space between them
OneOrTwoWords(w) ==
    /\ w # <<>>
    /\ \A k \in 1..Len(w) : IsWord(w[k]) \/ w[k] = " "
    /\ w[1] # " " /\ w[Len(w)] # " "
    /\ Cardinality({k \in 1..Len(w) : w[k] = " "}) <= 1

\* at offset a of s stand one or two words and then "." or ";"
FollowedByClosing(s, a) ==
    \E e \in (a + 1)..Len(s) :
        CharAt(s, e) \in {".", ";"} /\ OneOrTwoWords(Slice(s, a, e))

\* a break stands directly before offset a of s
BrokenBefore(s, a, br) == a >= Len(br) /\ OccursAt(s, br, a - Len(br))

\* the argument of the k-th call of verse_to_markdown
ArgumentOf(k) == IF k = 1 THEN text ELSE reflow_out[k - 1]

RECURSIVE SubFirstRules(_, _, _, _)
\* the text after the rules k..n
SubFirstRules(s, k, n, br) ==
    IF s = <<>> \/ k > n THEN s
    ELSE SubFirstRules(SubFrom(RULES[k], s, 0, br), k + 1, n, br)

\* the text as the rules before the last one, the rule for and, leave it
BeforeAndRule(s, br) == SubFirstRules(s, 1, Len(RULES) - 1, br)

\* the words and of res are those of arg, and every one of them that is at
\* a comma or semicolon in seen has a break before it in res exactly if no
\* closing follows it in seen
BrokenUnlessClosing(arg, seen, res, br) ==
    /\ Cardinality(AndOffsets(res)) = Cardinality(AndOffsets(arg))
    /\ Cardinality(AndOffsets(seen)) = Cardinality(AndOffsets(arg))
    /\ \A i \in 1..Cardinality(AndOffsets(arg)) :
           FollowsCommaOrSemicolon(seen, NthOffset(AndOffsets(seen), i)) =>
               (BrokenBefore(res, NthOffset(AndOffsets(res), i), br)
                    <=> ~FollowedByClosing(seen,
                                           NthOffset(AndOffsets(seen), i) + 4))

(***************************************************************************)
(* C23 as stated: verse_to_markdown puts a break before a word and that    *)
(* follows a comma or semicolon (with an optional footnote marker) and a   *)
(* space if and only if that and is not followed by one word, or by two    *)
(* words with one space between them, and then "." or ";".                 *)
(***************************************************************************)
C23_AndBreakIff ==
    \A k \in 1..Len(reflow_out) :
        BrokenUnlessClosing(ArgumentOf(k), ArgumentOf(k), reflow_out[k],
                            IndentBreak(rstrict))

(***************************************************************************)
(* C23 amended: the same holds of the text as the rules before the rule    *)
(* for and leave it.  A word and that follows, in that text, a comma or    *)
(* semicolon (with an optional footnote marker) and a space has a break    *)
(* before it in the result if and only if it is not followed by one word,  *)
(* or two words with one space between them, and then "." or ";"; every    *)
(* other word and is as those rules left it.                               *)
(***************************************************************************)
C23_AndRuleBreakIff ==
    \A k \in 1..Len(reflow_out) :
        /\ BrokenUnlessClosing(ArgumentOf(k),
                               BeforeAndRule(ArgumentOf(k),
                                             IndentBreak(rstrict)),
                               reflow_out[k], IndentBreak(rstrict))
        /\ \A i \in 1..Cardinality(AndOffsets(ArgumentOf(k))) :
               ~FollowsCommaOrSemicolon(
                     BeforeAndRule(ArgumentOf(k), IndentBreak(rstrict)),
                     NthOffset(AndOffsets(BeforeAndRule(ArgumentOf(k),
                                                        IndentBreak(rstrict))),
                               i)) =>
                   (BrokenBefore(reflow_out[k],
                                 NthOffset(AndOffsets(reflow_out[k]), i),
                                 IndentBreak(rstrict))
                        <=> BrokenBefore(
                                BeforeAndRule(ArgumentOf(k),
                                              IndentBreak(rstrict)),
                                NthOffset(AndOffsets(BeforeAndRule(
                                              ArgumentOf(k),
                                              IndentBreak(rstrict))), i),
                                IndentBreak(rstrict)))

\* the and of "a,(1) and a b c", which three words follow, got its break
C23_Witness ==
    /\ reflow_pc = 1
    /\ ~rstrict
    /\ number = NoneInt
    /\ text = <<"a", ",", "(", "1", ")", " ", "a", "n", "d", " ",
                "a", " ", "b", " ", "c">>
    /\ reflow_out[1] = <<"a", ",", "(", "1", ")", "NL", " ", " ", " ", " ",
                         "a", "n", "d", " ", "a", " ", "b", " ", "c">>

(***************************************************************************)
(* Claims about indented lines without verse marker, checked under         *)
(* SpecProc                                                                *)
(***************************************************************************)
\* the line of the iteration is indented and has no verse marker
MarkerlessLine == IsVerseLine(CurrentLine) /\ VerseMarks(CurrentLine, 0) = <<>>

\* no verse is open for the line of the iteration: the last element is the
\* title, a section header or a separator, or the line starts a paragraph
\* and a separator or blank element is put before it
NoVerseOpen ==
    \/ Len(lines) = 1
    \/ IsHeaderElement(Last(lines))
    \/ IsSeparatorElement(Last(lines))
    \/ ParagraphStartMatch(CurrentLine)

RECURSIVE FirstLineOf(_)
\* the element up to its first newline
FirstLineOf(e) ==
    IF e = <<>> \/ Head(e) = "NL" THEN <<>>
    ELSE <<Head(e)>> \o FirstLineOf(Tail(e))

\* the numbers of the numbered entries of the buffer, in order
EntryNumbers(buf) ==
    [k \in 1..Len(EmittedEntries(buf)) |-> EmittedEntries(buf)[k].num]

(***************************************************************************)
(* C24: the iteration over an indented line without verse marker creates   *)
(* no numbered entry.  If no verse is open (the last element is a title, a *)
(* section header or a separator) the line becomes an unnumbered paragraph *)
(* of its own and the title, header or separator keeps its text: its line  *)
(* of the document is as it was.  Otherwise the reflowed line is appended  *)
(* to the last element of the buffer.                                      *)
(***************************************************************************)
C24_MarkerlessLines ==
    [][(LoopStep /\ MarkerlessLine) =>
          /\ EntryNumbers(lines') = EntryNumbers(lines)
          /\ Len(lines') >= Len(lines)
          /\ \A k \in 1..(Len(lines) - 1) : lines'[k] = lines[k]
          /\ NoVerseOpen =>
                 /\ FirstLineOf(lines'[Len(lines)]) = FirstLineOf(Last(lines))
                 /\ \A k \in Len(lines)..Len(lines') :
                        StartsWith(lines'[k], <<"-", "-", "-">>) =>
                            FirstLineOf(lines'[k]) = <<"-", "-", "-">>
                 /\ Last(lines') # <<>>
          /\ ~NoVerseOpen =>
                 /\ Len(lines') = Len(lines)
                 /\ StartsWith(Last(lines'), RStripBreaks(Last(lines)))
                 /\ Len(Last(lines')) > Len(RStripBreaks(Last(lines)))
      ]_vars

(***************************************************************************)
(* Claims about the chapter markers, checked under SpecProc                *)
(***************************************************************************)
\* the offset of the first "*" of e at or after offset a, Len(e) if none
RECURSIVE StarFrom(_, _)
StarFrom(e, a) ==
    IF a >= Len(e) \/ CharAt(e, a) = "*" THEN a ELSE StarFrom(e, a + 1)

RECURSIVE ChaptersIn(_, _)
\* the numbers between the pairs of "*" of an element, from offset a on
ChaptersIn(e, a) ==
    IF StarFrom(e, a) >= Len(e) THEN <<>>
    ELSE <<IntOfDigits(Slice(e, StarFrom(e, a) + 1,
                             StarFrom(e, StarFrom(e, a) + 1)))>>
         \o ChaptersIn(e, StarFrom(e, StarFrom(e, a) + 1) + 1)

RECURSIVE InjectedChapters(_)
\* the chapter numbers of the markers in the buffer, in order
InjectedChapters(buf) ==
    IF buf = <<>> THEN <<>>
    ELSE ChaptersIn(Head(buf), 0) \o InjectedChapters(Tail(buf))

\* the cursors are a range over more than one chapter
CursorsSpanChapters ==
    /\ start_verse # NoneVal
    /\ end_verse # NoneVal
    /\ start_verse.chapter_number < end_verse.chapter_number

\* the chapter the first marker announces
FirstAnnounced ==
    IF start_verse.number <= 1 THEN start_verse.chapter_number
    ELSE start_verse.chapter_number + 1

(***************************************************************************)
(* C25: chapter markers are injected only when both cursors are given and  *)
(* the chapter of the start is less than the chapter of the end.  The      *)
(* numbers of the injected markers go up by exactly 1, from the chapter of *)
(* the start if its verse is at most 1 and from the chapter after it       *)
(* otherwise, and none is greater than the chapter of the end; the         *)
(* iteration over one input line injects at most one marker.               *)
(***************************************************************************)
C25_ChapterMarkers ==
    [][LoopStep =>
          /\ ~CursorsSpanChapters => InjectedChapters(lines') = <<>>
          /\ \A k \in 1..Len(InjectedChapters(lines')) :
                 /\ InjectedChapters(lines')[k] = FirstAnnounced + k - 1
                 /\ InjectedChapters(lines')[k] <= end_verse.chapter_number
          /\ Len(InjectedChapters(lines')) >= Len(InjectedChapters(lines))
          /\ Len(InjectedChapters(lines'))
                 <= Len(InjectedChapters(lines)) + 1
      ]_vars

\* for John 15-16 the markers of chapters 15 and 16 are in the buffer
C25_Witness ==
    /\ proc_pc = "loop"
    /\ start_verse = JohnVerse(15, 0)
    /\ end_verse = JohnVerse(16, 0)
    /\ InjectedChapters(lines) = <<15, 16>>

(***************************************************************************)
(* Claims about failures of process_2, checked under SpecProc              *)
(***************************************************************************)
\* every verse marker of the verse lines of the text has a number >= 1
AllMarkersPositive ==
    \A k \in 1..Len(BodyMarkers(input_lines, 2)) :
        BodyMarkers(input_lines, 2)[k] >= 1

\* lines[-1] is read in every iteration after the first, and lines[-2] when
\* lines[-1] is blank: both are elements of the buffer
BackwardAccessInBuffer ==
    (proc_pc = "loop" /\ idx >= 1) =>
        /\ Len(lines) >= 1
        /\ Last(lines) = <<>> => Len(lines) >= 2

(***************************************************************************)
(* C26: for a raw text whose verse markers all have numbers >= 1, no       *)
(* iteration fails: the assertion of the branch for a line without marker  *)
(* holds, so that a run that has raised has a marker 0, and what is        *)
(* returned after the last line is a document; lines[-1] and lines[-2] are *)
(* elements of the buffer wherever they are read, for every text.          *)
(***************************************************************************)
C26_NeverFails ==
    /\ BackwardAccessInBuffer
    /\ proc_pc = "raised" => ~AllMarkersPositive
    /\ proc_pc = "done" =>
           (AllMarkersPositive => proc_out = Strip(Join(lines)))

\* the document of a text with a gap, a marker that goes back to 1 and a
\* line without marker was returned
C26_Witness ==
    /\ proc_pc = "done"
    /\ Len(input_lines) = 3
    /\ input_lines[2] = <<" ", " ", "[", "9", "]", " ", "a", " ",
                          "[", "1", "]", " ", "b">>
    /\ input_lines[3] = <<" ", " ", " ", " ", "c">>
    /\ proc_out = Strip(Join(lines))

(***************************************************************************)
(* Claims about what verse_to_markdown leaves of the text, checked under   *)
(* SpecRender                                                              *)
(***************************************************************************)
\* offset k of s lies within an occurrence of p
Covered(s, p, k) ==
    \E a \in (k - Len(p) + 1)..k : a >= 0 /\ OccursAt(s, p, a)

\* s without the occurrences of p, for a p that cannot overlap itself
RemoveAll(s, p) ==
    SelectSeq([k \in 1..Len(s) |->
                  IF Covered(s, p, k - 1) THEN "" ELSE s[k]],
              LAMBDA c : c # "")

\* s without spaces and without what is left of the breaks br then
Squeezed(s, br) ==
    RemoveAll(SelectSeq(s, LAMBDA c : c # " "),
              SelectSeq(br, LAMBDA c : c # " "))

\* the result of the first call without the prefix of a number >= 1
WithoutPrefix(res, n) ==
    IF n >= 1 THEN SliceFrom(res, Len(StrOfInt(n)) + 2) ELSE res

(***************************************************************************)
(* C27: verse_to_markdown changes only whitespace.  For every text and     *)
(* both modes, the result without the number prefix, without the breaks    *)
(* and without spaces is the text without spaces; for a second pass, over  *)
(* a result that has breaks already, the breaks are taken out of both.     *)
(***************************************************************************)
C27_OnlyWhitespace ==
    /\ reflow_pc >= 1 =>
           /\ Squeezed(WithoutPrefix(reflow_out[1], number),
                       IndentBreak(rstrict))
                  = SelectSeq(text, LAMBDA c : c # " ")
           /\ number >= 1 =>
                  StartsWith(reflow_out[1], StrOfInt(number) \o <<".", " ">>)
    /\ reflow_pc >= 2 =>
           Squeezed(reflow_out[2], IndentBreak(rstrict))
               = Squeezed(reflow_out[1], IndentBreak(rstrict))

\* the long verse was reflowed in strict mode, with breaks put in
C27_Witness ==
    /\ reflow_pc = 1
    /\ rstrict
    /\ text = LongText
    /\ Occurrences(reflow_out[1], STRICT_BREAK) >= 8

(***************************************************************************)
(* Claims about the entries of one verse line, checked under SpecProc      *)
(***************************************************************************)
\* the verse marks of the line of the iteration
CurrentMarks == VerseMarks(CurrentLine, 0)

\* the line of the iteration is indented and has verse marks, all >= 1
MarkedLine ==
    /\ IsVerseLine(CurrentLine)
    /\ CurrentMarks # <<>>
    /\ \A k \in 1..Len(CurrentMarks) : CurrentMarks[k].num >= 1

\* the elements the step has put behind those of the buffer it found
NewElements == SubSeq(lines', Len(lines) + 1, Len(lines'))

\* the numbered elements of a buffer that are no placeholders, in order
VerseElements(buf) ==
    SelectSeq(buf, LAMBDA e : /\ VerseEntryNumber(e) >= 0
                              /\ ~IsPlaceholder(e, VerseEntryNumber(e)))

\* the text of line s from mark k to the next mark or the end, without the
\* mark and without spaces
MarkedText(s, marks, k) ==
    SliceFrom(RemoveChars(Slice(s, marks[k].at,
                                IF k < Len(marks) THEN marks[k + 1].at
                                ELSE Len(s)),
                          {" "}),
              Len(StrOfInt(marks[k].num)) + 2)

\* the text of the entry e of verse n, without its prefix, its breaks and
\* spaces
EntryText(e, n, br) == Squeezed(WithoutPrefix(RStripBreaks(e), n), br)

\* the text of line s before its first mark
BeforeFirstMark(s, marks) == Slice(s, 0, marks[1].at)

\* an unnumbered element with the text before the first mark stands among
\* the new elements before every numbered one
ProseBeforeEntries(new, prose, br) ==
    \E j \in 1..Len(new) :
        /\ Squeezed(RStripBreaks(new[j]), br) = RemoveChars(prose, {" "})
        /\ \A i \in 1..j : VerseEntryNumber(new[i]) < 0

====
